---------------------------- MODULE Spec2Model ----------------------------
(***************************************************************************)
(* Sector rotation / breakout scanners of the sector-rotation repository.  *)
(*                                                                         *)
(* Three entry points are modelled:                                        *)
(*   smart    - smart_sector_breakout_scanner.py  main()                   *)
(*   rotation - sector_rotation_scanner.py        main()                   *)
(*   clickup  - scripts/sector_rotation_clickup.py scan_sectors()          *)
(*                                                                         *)
(* Numbers.  Python floats are modelled by exact rationals [n, d] (d > 0,  *)
(* lowest terms).  None is the empty sequence; an optional value is a      *)
(* sequence of length at most one.  A DataFrame is the sequence of its     *)
(* rows, oldest first; get_daily_data never returns an empty frame, so the *)
(* empty sequence stands for its None.                                     *)
(***************************************************************************)
EXTENDS Integers, Sequences, FiniteSets, TLC

VARIABLES
    prog,                \* entry point that is running
    pc,                  \* position in that entry point
    stock_cfg,           \* SECTOR_STOCKS as configured: the sectors that have a stock list
    df,                  \* DataFrame most recently returned by the data source
    news,                \* most recent response of the news endpoint
    requested,           \* tickers passed to the daily-data endpoint, in call order
    news_requested,      \* tickers passed to the news endpoint, in call order
    sector_scores,       \* smart: dict sector name -> momentum, in insertion order
    sorted_sectors,      \* smart: sector_scores sorted by momentum
    strongest_sector,    \* smart: None or the selected (name, momentum)
    sector_stocks,       \* smart: stock list of the selected sector
    breakout_candidates, \* smart: list of candidate dicts
    df_results,          \* smart: candidates sorted by quality_score
    results,             \* rotation: list of analysis dicts
    ranking,             \* rotation / clickup: the sorted DataFrame
    sector_data,         \* clickup: dict symbol -> {sector_name, metrics}
    report,              \* rotation / clickup: what identify_rotation / scan_sectors print
    idx                  \* position of the running for loop in its list, from 1

vars == <<prog, pc, stock_cfg, df, news, requested, news_requested, sector_scores,
          sorted_sectors, strongest_sector, sector_stocks, breakout_candidates,
          df_results, results, ranking, sector_data, report, idx>>

-----------------------------------------------------------------------------
(* Bounds of the model *)

\* number of sector ETFs of SECTOR_ETFS that are tracked (a prefix of the dict)
NumSectors == 3

\* number of tickers kept of each SECTOR_STOCKS list (a prefix of the list)
MaxStocks == 2

-----------------------------------------------------------------------------
(* Optional values and exact arithmetic *)

None == <<>>

Some(x) == <<x>>

IsNone(x) == x = <<>>

Abs(x) == IF x < 0 THEN -x ELSE x

RECURSIVE GCD(_, _)
GCD(a, b) == IF b = 0 THEN a ELSE GCD(b, a % b)

\* the rational n/d in lowest terms, d > 0
Q(n, d) ==
    LET s == IF d < 0 THEN -1 ELSE 1
        g == GCD(Abs(n), Abs(d))
    IN  [n |-> (s * n) \div g, d |-> (s * d) \div g]

QInt(k) == [n |-> k, d |-> 1]

QAdd(a, b) == Q(a.n * b.d + b.n * a.d, a.d * b.d)

QSub(a, b) == Q(a.n * b.d - b.n * a.d, a.d * b.d)

QMul(a, b) == Q(a.n * b.n, a.d * b.d)

QDiv(a, b) == Q(a.n * b.d, a.d * b.n)

QLt(a, b) == a.n * b.d < b.n * a.d

QGt(a, b) == QLt(b, a)

QLe(a, b) == ~QLt(b, a)

RECURSIVE Pow10(_)
Pow10(k) == IF k = 0 THEN 1 ELSE 10 * Pow10(k - 1)

\* Python round(x, digits): to the nearest multiple of 10^-digits, a tie to the even one
Round(x, digits) ==
    LET p == Pow10(digits)
        f == (x.n * p) \div x.d
        r == (x.n * p) % x.d
        up == \/ 2 * r > x.d
              \/ (2 * r = x.d /\ f % 2 = 1)
    IN  Q(IF up THEN f + 1 ELSE f, p)

\* Python int(x) of a float: truncation towards zero
Trunc(x) == IF x.n >= 0 THEN x.n \div x.d ELSE -((-x.n) \div x.d)

RECURSIVE SumOf(_)
SumOf(s) == IF s = <<>> THEN 0 ELSE Head(s) + SumOf(Tail(s))

\* Series.mean() of a column of integers
Mean(s) == Q(SumOf(s), Len(s))

RECURSIVE MaxOf(_)
MaxOf(s) == IF Len(s) = 1 THEN s[1]
            ELSE LET m == MaxOf(Tail(s)) IN IF s[1] >= m THEN s[1] ELSE m

RECURSIVE MinOf(_)
MinOf(s) == IF Len(s) = 1 THEN s[1]
            ELSE LET m == MinOf(Tail(s)) IN IF s[1] <= m THEN s[1] ELSE m

\* DataFrame.tail(k): the last k rows, all of them when there are fewer
TailRows(s, k) == IF Len(s) <= k THEN s ELSE SubSeq(s, Len(s) - k + 1, Len(s))

\* DataFrame.iloc[-k]: the k-th row from the end
FromEnd(s, k) == s[Len(s) - k + 1]

\* DataFrame.iloc[-a:-b]: rows from the a-th from the end up to, not including, the b-th
SliceFromEnd(s, a, b) ==
    LET lo == IF Len(s) - a + 1 < 1 THEN 1 ELSE Len(s) - a + 1
    IN  SubSeq(s, lo, Len(s) - b)

Column(s, f) == [k \in 1..Len(s) |-> s[k][f]]

\* ((new - old) / old) * 100
PctChange(new, old) == QMul(QDiv(QSub(new, old), old), QInt(100))


-----------------------------------------------------------------------------
(* Configuration *)

\* SECTOR_ETFS in dict order, ticker then sector name, cut to NumSectors entries
SECTOR_ETFS ==
    SubSeq(<< <<"XLK", "Technology">>, <<"XLF", "Financials">>,
              <<"XLV", "Healthcare">>, <<"XLE", "Energy">>,
              <<"XLI", "Industrials">>, <<"XLP", "Consumer Staples">> >>,
           1, NumSectors)

SectorNames == {SECTOR_ETFS[k][2] : k \in 1..Len(SECTOR_ETFS)}

\* SECTOR_STOCKS as shipped, each list cut to MaxStocks tickers
ShippedStocks ==
    [s \in SectorNames |->
        SubSeq(CASE s = "Technology" -> <<"AMD", "NVDA", "AVGO", "ORCL">>
                 [] s = "Financials" -> <<"BAC", "JPM", "WFC", "GS">>
                 [] s = "Healthcare" -> <<"UNH", "JNJ", "LLY", "ABBV">>
                 [] s = "Energy" -> <<"XOM", "CVX", "COP", "SLB">>
                 [] s = "Industrials" -> <<"GE", "CAT", "HON", "UNP">>
                 [] OTHER -> <<"PG", "KO", "PEP", "COST">>,
               1, MaxStocks)]

\* every ticker of SECTOR_STOCKS
StockTickers ==
    UNION {{ShippedStocks[s][k] : k \in 1..Len(ShippedStocks[s])} : s \in SectorNames}

\* The configurations of SECTOR_STOCKS that are explored: the shipped one, one
\* without a list for Technology, and one without any list.
StockConfigs == {SectorNames, SectorNames \ {"Technology"}, {}}

\* SECTOR_STOCKS.get(sector_name, [])
SECTOR_STOCKS_get(cfg, sector_name) ==
    IF sector_name \in cfg THEN ShippedStocks[sector_name] ELSE <<>>

-----------------------------------------------------------------------------
(* Responses of the daily-data endpoint *)

\* A sector series of n rows: closes are 100 except the last one and the rows
\* (counted from the end) that olds names; the last five volumes are vol5, the
\* earlier ones 1000.
SectorFrame(n, last, olds, vol5) ==
    [k \in 1..n |->
        LET e == n - k + 1
            c == IF e = 1 THEN last ELSE IF e \in DOMAIN olds THEN olds[e] ELSE 100
        IN  [High |-> c + 1, Low |-> c - 1, Close |-> c,
             Volume |-> IF e <= 5 THEN vol5 ELSE 1000]]

NoOlds == [e \in {} |-> 0]

\* What the endpoint returns for a sector ETF during a scan: nothing, 19 rows,
\* a flat month, a rising and a falling month, and a month that rose from 95
\* to 101 (a 20-day change of 6.3158 %, not a number of 2 decimals).
SectorFeed ==
    { None,
      SectorFrame(19, 102, NoOlds, 2000),
      SectorFrame(20, 100, NoOlds, 1000),
      SectorFrame(21, 102, NoOlds, 2000),
      SectorFrame(20, 98, NoOlds, 2000),
      SectorFrame(20, 101, (20 :> 95), 1000) }

-----------------------------------------------------------------------------
(* sector_rotation_scanner.py: analyze_sector_strength *)

Close(row) == QInt(row.Close)

price_1d(daily_df) ==
    LET recent_20 == TailRows(daily_df, 20)
    IN  PctChange(Close(FromEnd(recent_20, 1)), Close(FromEnd(recent_20, 2)))

price_5d(daily_df) ==
    LET recent_5 == TailRows(daily_df, 5)
    IN  PctChange(Close(FromEnd(recent_5, 1)), Close(recent_5[1]))

price_20d(daily_df) ==
    LET recent_20 == TailRows(daily_df, 20)
    IN  PctChange(Close(FromEnd(recent_20, 1)), Close(recent_20[1]))

vol_trend(daily_df) ==
    LET avg_vol_20d == Mean(Column(TailRows(daily_df, 20), "Volume"))
        recent_vol == Mean(Column(TailRows(daily_df, 5), "Volume"))
    IN  PctChange(recent_vol, avg_vol_20d)

rs_vs_sma(daily_df) ==
    LET recent_20 == TailRows(daily_df, 20)
    IN  PctChange(Close(FromEnd(recent_20, 1)), Mean(Column(recent_20, "Close")))

\* the weights of the breakout scanner's quick analysis, 0.5 and 0.5
momentum_score_two_terms(daily_df) ==
    QAdd(QMul(price_1d(daily_df), Q(5, 10)), QMul(price_5d(daily_df), Q(5, 10)))

\* (price_1d * 0.5) + (price_5d * 0.3) + (price_20d * 0.2)
momentum_score(daily_df) ==
    QAdd(QAdd(QMul(price_1d(daily_df), Q(5, 10)), QMul(price_5d(daily_df), Q(3, 10))),
         QMul(price_20d(daily_df), Q(2, 10)))

\* the chain with the plain BUYING / SELLING tests ahead of the strong ones
trend_plain_first(score, vol) ==
    IF QGt(score, Q(5, 10)) THEN "BUYING"
    ELSE IF QGt(score, Q(15, 10)) /\ QGt(vol, QInt(0)) THEN "STRONG BUY"
    ELSE IF QLt(score, Q(-5, 10)) THEN "SELLING"
    ELSE IF QLt(score, Q(-15, 10)) /\ QGt(vol, QInt(0)) THEN "STRONG SELL"
    ELSE "NEUTRAL"

\* the if / elif chain that sets trend
trend(score, vol) ==
    IF QGt(score, Q(15, 10)) /\ QGt(vol, QInt(0)) THEN "STRONG BUY"
    ELSE IF QGt(score, Q(5, 10)) THEN "BUYING"
    ELSE IF QLt(score, Q(-15, 10)) /\ QGt(vol, QInt(0)) THEN "STRONG SELL"
    ELSE IF QLt(score, Q(-5, 10)) THEN "SELLING"
    ELSE "NEUTRAL"

\* len(daily_df) < 20, daily_df None included
too_short(daily_df) == Len(daily_df) < 20

analyze_sector_strength(daily_df, ticker, sector_name) ==
    IF too_short(daily_df) THEN None
    ELSE Some([Sector |-> sector_name,
               Ticker |-> ticker,
               Change_1D |-> Round(price_1d(daily_df), 2),
               Change_5D |-> Round(price_5d(daily_df), 2),
               Change_20D |-> Round(price_20d(daily_df), 2),
               Volume_Trend |-> Round(vol_trend(daily_df), 2),
               RS_vs_SMA20 |-> Round(rs_vs_sma(daily_df), 2),
               Momentum_Score |-> Round(momentum_score(daily_df), 2),
               Trend |-> trend(momentum_score(daily_df), vol_trend(daily_df)),
               Current_Price |-> Round(Close(FromEnd(daily_df, 1)), 2)])

-----------------------------------------------------------------------------
(* smart_sector_breakout_scanner.py: analyze_sector_strength *)

\* (price_1d * 0.5) + (price_5d * 0.5)
smart_momentum_score(d) ==
    QAdd(QMul(price_1d(d), Q(5, 10)), QMul(price_5d(d), Q(5, 10)))

smart_analyze_sector_strength(d) ==
    IF Len(d) < 20 THEN None ELSE Some(smart_momentum_score(d))

\* truth value of a float: "if momentum:" is false for None and for 0.0
Truthy(opt) == ~IsNone(opt) /\ opt[1].n # 0

\* one iteration of the sector loop of main()
smart_sector_step(scores, sector_name, d) ==
    LET momentum == smart_analyze_sector_strength(d)
    IN  IF Truthy(momentum) THEN Append(scores, <<sector_name, momentum[1]>>)
        ELSE scores

-----------------------------------------------------------------------------
(* smart_sector_breakout_scanner.py: check_breakout_quality *)

\* recent['Close'].rolling(window=w).mean() at the last row: NaN (None) below w rows
SMA(recent, w) ==
    IF Len(recent) < w THEN None
    ELSE Some(Mean(Column(TailRows(recent, w), "Close")))

\* recent.iloc[-21:-1]
lookback_data(recent) == SliceFromEnd(recent, 21, 1)

prev_high(recent) == QInt(MaxOf(Column(lookback_data(recent), "High")))

\* the average taken over the last 20 rows, the last row included
avg_volume_with_today(recent) == Mean(Column(TailRows(recent, 20), "Volume"))

avg_volume(recent) == Mean(Column(lookback_data(recent), "Volume"))

\* today['Close'] >= prev_high: a close at the prior high passes
price_breakout_at_high(close, high) == QLe(high, close)

\* today['Close'] > prev_high
price_breakout(close, high) == QGt(close, high)

\* today['Close'] > today['SMA_k'] if not pd.isna(today['SMA_k']) else False
above_sma(close, sma) == IF IsNone(sma) THEN FALSE ELSE QGt(close, sma[1])

uptrend(sma10, sma20) ==
    IF IsNone(sma10) \/ IsNone(sma20) THEN FALSE ELSE QGt(sma10[1], sma20[1])

\* the breakout tiers with 30 points for a breakout above 5%
breakout_points_30(breakout_pct) ==
    IF QGt(breakout_pct, QInt(5)) THEN 30
    ELSE IF QGt(breakout_pct, QInt(3)) THEN 20
    ELSE IF QGt(breakout_pct, QInt(1)) THEN 15
    ELSE 10

\* the breakout tiers with the boundaries in the upper tier: >= 5, >= 3, >= 1
breakout_points_inclusive(breakout_pct) ==
    IF QLe(QInt(5), breakout_pct) THEN 25
    ELSE IF QLe(QInt(3), breakout_pct) THEN 20
    ELSE IF QLe(QInt(1), breakout_pct) THEN 15
    ELSE 10

\* 1. Breakout strength
breakout_points(breakout_pct) ==
    IF QGt(breakout_pct, QInt(5)) THEN 25
    ELSE IF QGt(breakout_pct, QInt(3)) THEN 20
    ELSE IF QGt(breakout_pct, QInt(1)) THEN 15
    ELSE 10

\* the volume tiers with 30 points for a ratio above 3
volume_points_30(volume_ratio) ==
    IF QGt(volume_ratio, QInt(3)) THEN 30
    ELSE IF QGt(volume_ratio, QInt(2)) THEN 20
    ELSE IF QGt(volume_ratio, Q(15, 10)) THEN 15
    ELSE 5

\* 2. Volume confirmation
volume_points(volume_ratio) ==
    IF QGt(volume_ratio, QInt(3)) THEN 25
    ELSE IF QGt(volume_ratio, QInt(2)) THEN 20
    ELSE IF QGt(volume_ratio, Q(15, 10)) THEN 15
    ELSE 5

\* the trend points without the test of SMA10 against SMA20
trend_points_no_order(above_sma10, above_sma20, up) ==
    IF above_sma10 /\ above_sma20 THEN 25
    ELSE IF above_sma10 \/ above_sma20 THEN 10
    ELSE 0

\* 3. Trend alignment
trend_points(above_sma10, above_sma20, up) ==
    IF above_sma10 /\ above_sma20 /\ up THEN 25
    ELSE IF above_sma10 /\ above_sma20 THEN 20
    ELSE IF above_sma10 \/ above_sma20 THEN 10
    ELSE 0

\* the last 10 rows of the series, the last row among them
consolidation_period_with_today(recent) == TailRows(recent, 10)

\* lookback_data.iloc[-10:]
consolidation_period(recent) == TailRows(lookback_data(recent), 10)

price_range(recent) ==
    LET cp == consolidation_period(recent)
    IN  QDiv(QInt(MaxOf(Column(cp, "High")) - MinOf(Column(cp, "Low"))),
             Mean(Column(cp, "Close")))

\* 4. Consolidation quality
consolidation_points(range) ==
    IF QLt(range, Q(10, 100)) THEN 25
    ELSE IF QLt(range, Q(15, 100)) THEN 20
    ELSE IF QLt(range, Q(20, 100)) THEN 15
    ELSE 5

\* len(df) < 29
stock_too_short_29(d) == Len(d) < 29

\* len(df) < 30, df None included
stock_too_short(d) == Len(d) < 30

check_breakout_quality(d, ticker) ==
    IF stock_too_short(d) THEN None
    ELSE
      LET recent == TailRows(d, 50)
          today == FromEnd(recent, 1)
          close == QInt(today.Close)
          sma10 == SMA(recent, 10)
          sma20 == SMA(recent, 20)
          high == prev_high(recent)
          breakout_pct == PctChange(close, high)
          volume_ratio == QDiv(QInt(today.Volume), avg_volume(recent))
          quality_score ==
              breakout_points(breakout_pct) + volume_points(volume_ratio)
              + trend_points(above_sma(close, sma10), above_sma(close, sma20),
                             uptrend(sma10, sma20))
              + consolidation_points(price_range(recent))
      IN  IF ~price_breakout(close, high) THEN None
          ELSE Some([ticker |-> ticker,
                     close |-> Round(close, 2),
                     prev_high |-> Round(high, 2),
                     breakout_pct |-> Round(breakout_pct, 2),
                     volume |-> today.Volume,
                     avg_volume |-> Trunc(avg_volume(recent)),
                     volume_ratio |-> Round(volume_ratio, 2),
                     quality_score |-> quality_score,
                     sma_10 |-> IF IsNone(sma10) THEN QInt(0) ELSE Round(sma10[1], 2),
                     sma_20 |-> IF IsNone(sma20) THEN QInt(0) ELSE Round(sma20[1], 2)])

-----------------------------------------------------------------------------
(* smart_sector_breakout_scanner.py: get_news_sentiment *)

\* A news item is its ticker_sentiment list: entries [ticker, score].
\* The score of the first entry for the ticker, None when no entry names it.
ticker_sentiment(item, ticker) ==
    LET hits == SelectSeq(item, LAMBDA e : e.ticker = ticker)
    IN  IF hits = <<>> THEN None ELSE Some(hits[1].score)

\* sentiments: the scores kept by "if ticker_sentiment:" over news_items[:5]
RECURSIVE sentiments(_, _)
sentiments(items, ticker) ==
    IF items = <<>> THEN <<>>
    ELSE LET ts == ticker_sentiment(Head(items), ticker)
             rest == sentiments(Tail(items), ticker)
         IN  IF Truthy(ts) THEN <<ts[1]>> \o rest ELSE rest

RECURSIVE QSum(_)
QSum(s) == IF s = <<>> THEN QInt(0) ELSE QAdd(Head(s), QSum(Tail(s)))

\* feed: the 'feed' list of the response; empty when the request failed, the
\* key is missing or the list is empty
get_news_sentiment(feed, ticker) ==
    LET kept == sentiments(SubSeq(feed, 1, IF Len(feed) < 5 THEN Len(feed) ELSE 5), ticker)
    IN  IF feed = <<>> \/ kept = <<>> THEN None
        ELSE Some([avg_sentiment |-> QDiv(QSum(kept), QInt(Len(kept))),
                   news_count |-> Len(kept)])

\* the adjustment with the result clamped to 0..100
adjusted_score_clamped(quality_score, avg_sentiment) ==
    LET raw == IF QGt(avg_sentiment, Q(2, 10)) THEN quality_score + 10
               ELSE IF QLt(avg_sentiment, Q(-2, 10)) THEN quality_score - 10
               ELSE quality_score
    IN  IF raw > 100 THEN 100 ELSE IF raw < 0 THEN 0 ELSE raw

\* the adjustment with the thresholds included: >= 0.2 and <= -0.2
adjusted_score_inclusive(quality_score, avg_sentiment) ==
    IF QLe(Q(2, 10), avg_sentiment) THEN quality_score + 10
    ELSE IF QLe(avg_sentiment, Q(-2, 10)) THEN quality_score - 10
    ELSE quality_score

\* "Adjust quality score based on sentiment"
adjusted_score(quality_score, avg_sentiment) ==
    IF QGt(avg_sentiment, Q(2, 10)) THEN quality_score + 10
    ELSE IF QLt(avg_sentiment, Q(-2, 10)) THEN quality_score - 10
    ELSE quality_score

\* the candidate dict after the news step of main()
with_news(breakout, summary) ==
    IF ~IsNone(summary)
    THEN [ticker |-> breakout.ticker, close |-> breakout.close,
          prev_high |-> breakout.prev_high, breakout_pct |-> breakout.breakout_pct,
          volume |-> breakout.volume, avg_volume |-> breakout.avg_volume,
          volume_ratio |-> breakout.volume_ratio,
          sma_10 |-> breakout.sma_10, sma_20 |-> breakout.sma_20,
          quality_score |-> adjusted_score(breakout.quality_score, summary[1].avg_sentiment),
          news_sentiment |-> Round(summary[1].avg_sentiment, 3),
          news_count |-> summary[1].news_count,
          has_news |-> TRUE]
    ELSE [ticker |-> breakout.ticker, close |-> breakout.close,
          prev_high |-> breakout.prev_high, breakout_pct |-> breakout.breakout_pct,
          volume |-> breakout.volume, avg_volume |-> breakout.avg_volume,
          volume_ratio |-> breakout.volume_ratio,
          sma_10 |-> breakout.sma_10, sma_20 |-> breakout.sma_20,
          quality_score |-> breakout.quality_score,
          news_sentiment |-> QInt(0),
          news_count |-> 0,
          has_news |-> FALSE]

-----------------------------------------------------------------------------
(* Responses of the endpoints for stocks *)

NoRows == [e \in {} |-> 0]

\* A stock series of n rows.  A row has High 100, Low 95, Close 100 and
\* Volume 1000 unless highs, lows or closes give another value for its
\* position counted from the end; the last row closes at close (its High is
\* at least that) with volume vol.
StockFrame(n, close, vol, highs, lows, closes) ==
    [k \in 1..n |->
        LET e == n - k + 1
            c == IF e = 1 THEN close ELSE IF e \in DOMAIN closes THEN closes[e] ELSE 100
            h == IF e \in DOMAIN highs THEN highs[e] ELSE 100
            l == IF e \in DOMAIN lows THEN lows[e] ELSE 95
        IN  [High |-> IF h < c THEN c ELSE h,
             Low |-> IF l > c THEN c ELSE l,
             Close |-> c,
             Volume |-> IF e = 1 THEN vol ELSE 1000]]

\* What the endpoint returns for a stock during a scan: nothing, 29 rows that
\* end above the prior high, a close at the prior high, and a breakout.
StockFeed ==
    { None,
      StockFrame(29, 106, 3100, NoRows, NoRows, NoRows),
      StockFrame(30, 100, 3100, NoRows, NoRows, NoRows),
      StockFrame(50, 104, 2500, NoRows, (5 :> 85), NoRows) }

NewsItem(ticker, score) == << [ticker |-> ticker, score |-> score] >>

\* What the news endpoint returns for a ticker during a scan
NewsFeed(ticker) ==
    { <<>>,
      << NewsItem(ticker, Q(3, 10)) >> }

\* the news endpoint during a scan, by ticker
NewsFeedOf == [t \in StockTickers |-> NewsFeed(t)]

-----------------------------------------------------------------------------
(* Sorting *)

\* Python sorted(items, key, reverse=True) on the row numbers: stable, rows
\* with equal keys keep their order
RECURSIVE InsertDesc(_, _, _)
InsertDesc(sorted, x, keys) ==
    IF sorted = <<>> THEN <<x>>
    ELSE IF QLt(keys[Head(sorted)], keys[x]) THEN <<x>> \o sorted
    ELSE <<Head(sorted)>> \o InsertDesc(Tail(sorted), x, keys)

RECURSIVE StableOrderDesc(_, _)
StableOrderDesc(n, keys) ==
    IF n = 0 THEN <<>> ELSE InsertDesc(StableOrderDesc(n - 1, keys), n, keys)

SortedStableDesc(items, keys) ==
    LET order == StableOrderDesc(Len(items), keys)
    IN  [k \in 1..Len(items) |-> items[order[k]]]

IndexPerms(n) ==
    {p \in [1..n -> 1..n] : \A a, b \in 1..n : a # b => p[a] # p[b]}

\* DataFrame.sort_values(column, ascending=False): kind defaults to 'quicksort',
\* which leaves the order of rows with equal keys open; every descending
\* arrangement of the rows is a possible result.
SortValuesDesc(rows, keys) ==
    { [k \in 1..Len(rows) |-> rows[p[k]]] :
        p \in { q \in IndexPerms(Len(rows)) :
                  \A k \in 1..(Len(rows) - 1) : QLe(keys[q[k + 1]], keys[q[k]]) } }

-----------------------------------------------------------------------------
(* smart_sector_breakout_scanner.py: main *)

\* the loop left at the first sector without an analysis
next_sector_or_leave(i, momentum) ==
    IF IsNone(momentum) THEN Len(SECTOR_ETFS) + 1 ELSE i + 1

\* the sector loop asking again for a sector that gave no analysis
next_sector_retry(i, momentum) == IF IsNone(momentum) THEN i ELSE i + 1

\* "for etf, sector_name in SECTOR_ETFS.items()": the loop goes on to the next
\* entry whatever the analysis of this one returned
next_sector(i, momentum) == i + 1

\* the stock loop asking again for a stock that gave no result
next_stock_retry(j, breakout) == IF IsNone(breakout) THEN j ELSE j + 1

\* "for ticker in sector_stocks": likewise
next_stock(j, breakout) == j + 1

\* sorted(sector_scores.items(), key=lambda x: x[1], reverse=True)
sort_sectors(scores) ==
    SortedStableDesc(scores, [k \in 1..Len(scores) |-> scores[k][2]])

\* the selection without the "if stocks:" test: the top sorted sector
first_sorted(sorted, cfg) == IF sorted = <<>> THEN None ELSE Some(Head(sorted))

\* the loop that stops at the first sorted sector with a stock list; None
\* when it ends without one
RECURSIVE find_strongest(_, _)
find_strongest(sorted, cfg) ==
    IF sorted = <<>> THEN None
    ELSE IF SECTOR_STOCKS_get(cfg, Head(sorted)[1]) # <<>> THEN Some(Head(sorted))
    ELSE find_strongest(Tail(sorted), cfg)

\* the stock loop with the news step run twice on a breakout
smart_stock_step_twice(candidates, d, ticker, feed) ==
    LET breakout == check_breakout_quality(d, ticker)
        summary == get_news_sentiment(feed, ticker)
    IN  IF IsNone(breakout) THEN candidates
        ELSE Append(candidates, with_news(with_news(breakout[1], summary), summary))

\* one iteration of the stock loop, the news already fetched when a breakout
\* was found
smart_stock_step(candidates, d, ticker, feed) ==
    LET breakout == check_breakout_quality(d, ticker)
    IN  IF IsNone(breakout) THEN candidates
        ELSE Append(candidates, with_news(breakout[1], get_news_sentiment(feed, ticker)))

\* the frame as built, the result of sort_values dropped
sort_by_quality_dropped(candidates) == {candidates}

\* df_results.sort_values('quality_score', ascending=False)
sort_by_quality(candidates) ==
    SortValuesDesc(candidates,
                   [k \in 1..Len(candidates) |-> QInt(candidates[k].quality_score)])

Begin ==
    /\ pc = "INIT"
    /\ pc' = "SECTOR_SCAN"
    /\ UNCHANGED <<prog, stock_cfg, df, news, requested, news_requested, sector_scores,
                   sorted_sectors, strongest_sector, sector_stocks, breakout_candidates,
                   df_results, results, ranking, sector_data, report, idx>>

SmartSectorStep(Feed) ==
    /\ prog = "smart"
    /\ pc = "SECTOR_SCAN"
    /\ idx <= Len(SECTOR_ETFS)
    /\ \E d \in Feed :
          /\ df' = d
          /\ requested' = Append(requested, SECTOR_ETFS[idx][1])
          /\ sector_scores' = smart_sector_step(sector_scores, SECTOR_ETFS[idx][2], d)
          /\ idx' = next_sector(idx, smart_analyze_sector_strength(d))
    /\ UNCHANGED <<prog, pc, stock_cfg, news, news_requested, sorted_sectors,
                   strongest_sector, sector_stocks, breakout_candidates, df_results,
                   results, ranking, sector_data, report>>

\* "if not sector_scores: return"
SmartSectorsDone ==
    /\ prog = "smart"
    /\ pc = "SECTOR_SCAN"
    /\ idx > Len(SECTOR_ETFS)
    /\ pc' = IF sector_scores = <<>> THEN "NO_SECTORS" ELSE "SECTOR_RANK"
    /\ UNCHANGED <<prog, stock_cfg, df, news, requested, news_requested, sector_scores,
                   sorted_sectors, strongest_sector, sector_stocks, breakout_candidates,
                   df_results, results, ranking, sector_data, report, idx>>

SmartRank ==
    /\ prog = "smart"
    /\ pc = "SECTOR_RANK"
    /\ sorted_sectors' = sort_sectors(sector_scores)
    /\ pc' = "SELECT"
    /\ UNCHANGED <<prog, stock_cfg, df, news, requested, news_requested, sector_scores,
                   strongest_sector, sector_stocks, breakout_candidates,
                   df_results, results, ranking, sector_data, report, idx>>

\* the selection loop and "if not strongest_sector: return"
SmartSelect ==
    /\ prog = "smart"
    /\ pc = "SELECT"
    /\ strongest_sector' = find_strongest(sorted_sectors, stock_cfg)
    /\ sector_stocks' = IF IsNone(strongest_sector') THEN <<>>
                        ELSE SECTOR_STOCKS_get(stock_cfg, strongest_sector'[1][1])
    /\ pc' = IF IsNone(strongest_sector') THEN "NO_ELIGIBLE" ELSE "STOCK_SCAN"
    /\ idx' = 1
    /\ UNCHANGED <<prog, stock_cfg, df, news, requested, news_requested, sector_scores,
                   sorted_sectors, breakout_candidates, df_results, results, ranking,
                   sector_data, report>>

SmartStockStep(Feed, NewsOf) ==
    /\ prog = "smart"
    /\ pc = "STOCK_SCAN"
    /\ idx <= Len(sector_stocks)
    /\ LET ticker == sector_stocks[idx] IN
       \E d \in Feed :
          /\ df' = d
          /\ requested' = Append(requested, ticker)
          /\ idx' = next_stock(idx, check_breakout_quality(d, ticker))
          /\ IF IsNone(check_breakout_quality(d, ticker))
             THEN /\ breakout_candidates' = breakout_candidates
                  /\ UNCHANGED <<news, news_requested>>
             ELSE \E feed \in NewsOf[ticker] :
                  /\ news' = feed
                  /\ news_requested' = Append(news_requested, ticker)
                  /\ breakout_candidates' =
                         smart_stock_step(breakout_candidates, d, ticker, feed)
    /\ UNCHANGED <<prog, pc, stock_cfg, sector_scores, sorted_sectors, strongest_sector,
                   sector_stocks, df_results, results, ranking, sector_data, report>>

\* the end of the stock loop going back to the selection when the sector gave
\* no breakout
SmartStocksDone_Reselect ==
    /\ prog = "smart"
    /\ pc = "STOCK_SCAN"
    /\ idx > Len(sector_stocks)
    /\ pc' = IF breakout_candidates = <<>> THEN "SELECT" ELSE "STOCK_RANK"
    /\ UNCHANGED <<prog, stock_cfg, df, news, requested, news_requested, sector_scores,
                   sorted_sectors, strongest_sector, sector_stocks, breakout_candidates,
                   df_results, results, ranking, sector_data, report, idx>>

\* "if not breakout_candidates: return"
SmartStocksDone ==
    /\ prog = "smart"
    /\ pc = "STOCK_SCAN"
    /\ idx > Len(sector_stocks)
    /\ pc' = IF breakout_candidates = <<>> THEN "NO_BREAKOUTS" ELSE "STOCK_RANK"
    /\ UNCHANGED <<prog, stock_cfg, df, news, requested, news_requested, sector_scores,
                   sorted_sectors, strongest_sector, sector_stocks, breakout_candidates,
                   df_results, results, ranking, sector_data, report, idx>>

\* df_results.sort_values('quality_score', ascending=False), then the report
SmartStockRank ==
    /\ prog = "smart"
    /\ pc = "STOCK_RANK"
    /\ df_results' \in sort_by_quality(breakout_candidates)
    /\ pc' = "DONE"
    /\ UNCHANGED <<prog, stock_cfg, df, news, requested, news_requested, sector_scores,
                   sorted_sectors, strongest_sector, sector_stocks, breakout_candidates,
                   results, ranking, sector_data, report, idx>>

-----------------------------------------------------------------------------
(* sector_rotation_scanner.py: scan_sector_rotation, identify_rotation, main *)

\* Series.mean(): NaN (None) for an empty column
QMean(column) ==
    IF column = <<>> THEN None ELSE Some(QDiv(QSum(column), QInt(Len(column))))

Momentum_Scores(frame) == [k \in 1..Len(frame) |-> frame[k].Momentum_Score]

\* "if avg_momentum > 0.5 ... elif avg_momentum < -0.5 ... else"
market_mode(avg_momentum) ==
    IF QGt(avg_momentum, Q(5, 10)) THEN "RISK_ON"
    ELSE IF QLt(avg_momentum, Q(-5, 10)) THEN "RISK_OFF"
    ELSE "NEUTRAL"

Defensive == {"Utilities", "Consumer Staples", "Healthcare"}

Cyclical == {"Technology", "Consumer Discretionary", "Industrials", "Financials"}

\* the comparison of the two averages without the margin of 0.5
rotation_signal_no_margin(cyclical_avg, defensive_avg) ==
    IF IsNone(cyclical_avg) \/ IsNone(defensive_avg) THEN "BALANCED"
    ELSE IF QGt(cyclical_avg[1], defensive_avg[1]) THEN "CYCLICAL"
    ELSE IF QGt(defensive_avg[1], cyclical_avg[1]) THEN "DEFENSIVE"
    ELSE "BALANCED"

\* "if cyclical_avg > defensive_avg + 0.5 ... elif defensive_avg > cyclical_avg + 0.5";
\* a comparison with NaN is false
rotation_signal(cyclical_avg, defensive_avg) ==
    IF IsNone(cyclical_avg) \/ IsNone(defensive_avg) THEN "BALANCED"
    ELSE IF QGt(cyclical_avg[1], QAdd(defensive_avg[1], Q(5, 10))) THEN "CYCLICAL"
    ELSE IF QGt(defensive_avg[1], QAdd(cyclical_avg[1], Q(5, 10))) THEN "DEFENSIVE"
    ELSE "BALANCED"

identify_rotation(frame) ==
    LET defensive == SelectSeq(frame, LAMBDA r : r.Sector \in Defensive)
        cyclical == SelectSeq(frame, LAMBDA r : r.Sector \in Cyclical)
        avg_momentum == QMean(Momentum_Scores(frame))
    IN  [avg_momentum |-> avg_momentum[1],
         mode |-> market_mode(avg_momentum[1]),
         rotation |-> rotation_signal(QMean(Momentum_Scores(cyclical)),
                                      QMean(Momentum_Scores(defensive))),
         top_sector |-> frame[1].Sector,
         bottom_sector |-> frame[Len(frame)].Sector]

\* one iteration of the loop of scan_sector_rotation
rotation_sector_step(res, ticker, sector_name, d) ==
    LET analysis == analyze_sector_strength(d, ticker, sector_name)
    IN  IF IsNone(analysis) THEN res ELSE Append(res, analysis[1])

\* df.sort_values('Momentum_Score', ascending=False)
sort_by_momentum(res) == SortValuesDesc(res, Momentum_Scores(res))

RotationSectorStep(Feed) ==
    /\ prog = "rotation"
    /\ pc = "SECTOR_SCAN"
    /\ idx <= Len(SECTOR_ETFS)
    /\ \E d \in Feed :
          /\ df' = d
          /\ requested' = Append(requested, SECTOR_ETFS[idx][1])
          /\ results' = rotation_sector_step(results, SECTOR_ETFS[idx][1],
                                             SECTOR_ETFS[idx][2], d)
          /\ idx' = next_sector(idx, analyze_sector_strength(d, SECTOR_ETFS[idx][1],
                                                             SECTOR_ETFS[idx][2]))
    /\ UNCHANGED <<prog, pc, stock_cfg, news, news_requested, sector_scores,
                   sorted_sectors, strongest_sector, sector_stocks, breakout_candidates,
                   df_results, ranking, sector_data, report>>

\* "if not results: return None", and main's "if df is None: return"
RotationSectorsDone ==
    /\ prog = "rotation"
    /\ pc = "SECTOR_SCAN"
    /\ idx > Len(SECTOR_ETFS)
    /\ pc' = IF results = <<>> THEN "NO_SECTORS" ELSE "SECTOR_RANK"
    /\ UNCHANGED <<prog, stock_cfg, df, news, requested, news_requested, sector_scores,
                   sorted_sectors, strongest_sector, sector_stocks, breakout_candidates,
                   df_results, results, ranking, sector_data, report, idx>>

RotationRank ==
    /\ prog = "rotation"
    /\ pc = "SECTOR_RANK"
    /\ ranking' \in sort_by_momentum(results)
    /\ pc' = "IDENTIFY"
    /\ UNCHANGED <<prog, stock_cfg, df, news, requested, news_requested, sector_scores,
                   sorted_sectors, strongest_sector, sector_stocks, breakout_candidates,
                   df_results, results, sector_data, report, idx>>

RotationIdentify ==
    /\ prog = "rotation"
    /\ pc = "IDENTIFY"
    /\ report' = identify_rotation(ranking)
    /\ pc' = "DONE"
    /\ UNCHANGED <<prog, stock_cfg, df, news, requested, news_requested, sector_scores,
                   sorted_sectors, strongest_sector, sector_stocks, breakout_candidates,
                   df_results, results, ranking, sector_data, idx>>

-----------------------------------------------------------------------------
(* scripts/sector_rotation_clickup.py: calculate_sector_metrics, rank_sectors,
   scan_sectors *)

\* ((df['close'].iloc[-1] / df['close'].iloc[-k]) - 1) * 100 if len(df) >= k else 0
change_or_zero(d, k) ==
    IF Len(d) >= k
    THEN QMul(QSub(QDiv(Close(FromEnd(d, 1)), Close(FromEnd(d, k))), QInt(1)), QInt(100))
    ELSE QInt(0)

calculate_sector_metrics(d) ==
    IF Len(d) < 20 THEN None
    ELSE LET current_price == Close(FromEnd(d, 1))
             last_20 == TailRows(d, 20)
         IN  Some([day_1 |-> change_or_zero(d, 2),
                   day_5 |-> change_or_zero(d, 6),
                   day_20 |-> change_or_zero(d, 21),
                   current_price |-> current_price,
                   avg_volume |-> Mean(Column(last_20, "Volume")),
                   vs_sma20 |-> PctChange(current_price, Mean(Column(last_20, "Close"))),
                   pct_from_high |->
                       PctChange(current_price, QInt(MaxOf(Column(last_20, "High")))),
                   pct_from_low |->
                       PctChange(current_price, QInt(MinOf(Column(last_20, "Low"))))])

\* data['metrics']['1_day'] * 0.3 + ['5_day'] * 0.4 + ['20_day'] * 0.3
clickup_score(metrics) ==
    QAdd(QAdd(QMul(metrics.day_1, Q(3, 10)), QMul(metrics.day_5, Q(4, 10))),
         QMul(metrics.day_20, Q(3, 10)))

\* rankings: the rows rank_sectors builds, in the order of sector_data
RECURSIVE rankings(_)
rankings(data) ==
    IF data = <<>> THEN <<>>
    ELSE LET e == Head(data)
         IN  (IF IsNone(e.metrics) THEN <<>>
              ELSE << [Symbol |-> e.symbol, Sector |-> e.sector_name,
                       D1 |-> e.metrics[1].day_1, D5 |-> e.metrics[1].day_5,
                       D20 |-> e.metrics[1].day_20, vs_SMA20 |-> e.metrics[1].vs_sma20,
                       Score |-> clickup_score(e.metrics[1])] >>)
             \o rankings(Tail(data))

Scores(frame) == [k \in 1..Len(frame) |-> frame[k].Score]

\* df = pd.DataFrame(rankings); df.sort_values('Score', ascending=False).
\* A frame built from an empty list has no column 'Score': sort_values raises
\* KeyError, which nothing catches (None here).
rank_sectors(data) ==
    IF rankings(data) = <<>> THEN None
    ELSE Some(SortValuesDesc(rankings(data), Scores(rankings(data))))

\* "if avg_score > 1 ... elif avg_score < -1 ... else"
market_sentiment(avg_score) ==
    IF QGt(avg_score, QInt(1)) THEN "RISK_ON"
    ELSE IF QLt(avg_score, QInt(-1)) THEN "RISK_OFF"
    ELSE "NEUTRAL"

\* one iteration of the loop of scan_sectors
clickup_sector_step(data, symbol, sector_name, d) ==
    Append(data, [symbol |-> symbol, sector_name |-> sector_name,
                  metrics |-> IF IsNone(d) THEN None ELSE calculate_sector_metrics(d)])

ClickupSectorStep(Feed) ==
    /\ prog = "clickup"
    /\ pc = "SECTOR_SCAN"
    /\ idx <= Len(SECTOR_ETFS)
    /\ \E d \in Feed :
          /\ df' = d
          /\ requested' = Append(requested, SECTOR_ETFS[idx][1])
          /\ sector_data' = clickup_sector_step(sector_data, SECTOR_ETFS[idx][1],
                                                SECTOR_ETFS[idx][2], d)
          /\ idx' = next_sector(idx, calculate_sector_metrics(d))
    /\ UNCHANGED <<prog, pc, stock_cfg, news, news_requested, sector_scores,
                   sorted_sectors, strongest_sector, sector_stocks, breakout_candidates,
                   df_results, results, ranking, report>>

ClickupSectorsDone ==
    /\ prog = "clickup"
    /\ pc = "SECTOR_SCAN"
    /\ idx > Len(SECTOR_ETFS)
    /\ pc' = "SECTOR_RANK"
    /\ UNCHANGED <<prog, stock_cfg, df, news, requested, news_requested, sector_scores,
                   sorted_sectors, strongest_sector, sector_stocks, breakout_candidates,
                   df_results, results, ranking, sector_data, report, idx>>

\* rankings_df = rank_sectors(sector_data): the scan ends in a traceback when it raises
ClickupRank ==
    /\ prog = "clickup"
    /\ pc = "SECTOR_RANK"
    /\ IF IsNone(rank_sectors(sector_data))
       THEN /\ pc' = "CRASHED"
            /\ ranking' = ranking
       ELSE /\ pc' = "REPORT"
            /\ ranking' \in rank_sectors(sector_data)[1]
    /\ UNCHANGED <<prog, stock_cfg, df, news, requested, news_requested, sector_scores,
                   sorted_sectors, strongest_sector, sector_stocks, breakout_candidates,
                   df_results, results, sector_data, report, idx>>

\* the market sentiment block of scan_sectors, then chart, files and posting
ClickupReport ==
    /\ prog = "clickup"
    /\ pc = "REPORT"
    /\ report' = [avg_score |-> QMean(Scores(ranking))[1],
                  mode |-> market_sentiment(QMean(Scores(ranking))[1]),
                  positive |-> Len(SelectSeq(ranking, LAMBDA r : QGt(r.Score, QInt(0))))]
    /\ pc' = "DONE"
    /\ UNCHANGED <<prog, stock_cfg, df, news, requested, news_requested, sector_scores,
                   sorted_sectors, strongest_sector, sector_stocks, breakout_candidates,
                   df_results, results, ranking, sector_data, idx>>

-----------------------------------------------------------------------------
(* Specification of a scan *)

Programs == {"smart", "rotation", "clickup"}

Init ==
    /\ prog \in Programs
    /\ pc = "INIT"
    /\ stock_cfg \in IF prog = "smart" THEN StockConfigs ELSE {SectorNames}
    /\ df = None
    /\ news = <<>>
    /\ requested = <<>>
    /\ news_requested = <<>>
    /\ sector_scores = <<>>
    /\ sorted_sectors = <<>>
    /\ strongest_sector = None
    /\ sector_stocks = <<>>
    /\ breakout_candidates = <<>>
    /\ df_results = <<>>
    /\ results = <<>>
    /\ ranking = <<>>
    /\ sector_data = <<>>
    /\ report = <<>>
    /\ idx = 1

Next ==
    \/ Begin
    \/ SmartSectorStep(SectorFeed)
    \/ SmartSectorsDone
    \/ SmartRank
    \/ SmartSelect
    \/ SmartStockStep(StockFeed, NewsFeedOf)
    \/ SmartStocksDone
    \/ SmartStockRank
    \/ RotationSectorStep(SectorFeed)
    \/ RotationSectorsDone
    \/ RotationRank
    \/ RotationIdentify
    \/ ClickupSectorStep(SectorFeed)
    \/ ClickupSectorsDone
    \/ ClickupRank
    \/ ClickupReport

Spec == Init /\ [][Next]_vars

-----------------------------------------------------------------------------
(* Specification of the analysis of one sector series *)

\* The series the analyzers are applied to: 19 to 22 rows, a last close from
\* 97 to 103, none, one, two or three earlier closes moved, and a recent
\* volume below, at or above the monthly one.
SectorOlds(last) ==
    {NoOlds, (5 :> last @@ 20 :> last), (2 :> last @@ 5 :> last), (2 :> last @@ 20 :> last),
     (2 :> 101 @@ 5 :> 99 @@ 20 :> 98), (2 :> 99 @@ 5 :> 101 @@ 20 :> 102)}
    \cup {(e :> v) : e \in {2, 5, 6, 20, 21}, v \in {last, 90, 110}}

SectorInputs ==
    {None} \cup
    UNION { { SectorFrame(n, last, olds, vol5) :
                n \in 19..22, olds \in SectorOlds(last), vol5 \in {500, 1000, 2000} } :
            last \in 97..103 }

\* main() / scan_sector_rotation() / scan_sectors() at the head of the sector loop
InitAnalyzer ==
    /\ prog \in Programs
    /\ pc = "SECTOR_SCAN"
    /\ stock_cfg = SectorNames
    /\ df = None
    /\ news = <<>>
    /\ requested = <<>>
    /\ news_requested = <<>>
    /\ sector_scores = <<>>
    /\ sorted_sectors = <<>>
    /\ strongest_sector = None
    /\ sector_stocks = <<>>
    /\ breakout_candidates = <<>>
    /\ df_results = <<>>
    /\ results = <<>>
    /\ ranking = <<>>
    /\ sector_data = <<>>
    /\ report = <<>>
    /\ idx = 1

\* the first iteration of the sector loop, on any of the series
NextAnalyzer ==
    /\ idx = 1
    /\ \/ SmartSectorStep(SectorInputs)
       \/ RotationSectorStep(SectorInputs)
       \/ ClickupSectorStep(SectorInputs)

SpecAnalyzer == InitAnalyzer /\ [][NextAnalyzer]_vars

-----------------------------------------------------------------------------
(* Specification of the stock scan of one sector *)

\* the series with the volume of the row e from the end set to v
WithVolume(frame, e, v) == [frame EXCEPT ![Len(frame) - e + 1].Volume = v]

StockLens == {29, 30, 31, 50, 51}

\* The series check_breakout_quality is applied to: closes around the prior
\* high of 100 on every length; every volume tier; a higher High inside,
\* at the edge of and outside the 20 rows before the last one; a lower Low
\* inside and outside the 10 rows before the last one; falling recent closes;
\* a heavy volume inside, at the edge of and outside those 20 rows.
StockInputs ==
    {None}
    \cup { StockFrame(n, c, 1000, NoRows, NoRows, NoRows) : n \in StockLens, c \in 99..107 }
    \cup { StockFrame(30, c, v, NoRows, NoRows, NoRows) :
             c \in {100, 106}, v \in {1500, 1600, 2000, 2100, 3000, 3100} }
    \cup { StockFrame(n, c, 3100, (e :> 110), NoRows, NoRows) :
             n \in {30, 50}, c \in {106, 110, 111}, e \in {1, 2, 20, 21, 22} }
    \cup { StockFrame(n, 106, 1000, NoRows, (e :> l), NoRows) :
             n \in {30, 50}, e \in {1, 2, 11, 12}, l \in {91, 90, 86, 85, 81, 80} }
    \cup { StockFrame(n, c, 2100, NoRows, NoRows, [e \in 2..10 |-> 90]) :
             n \in {30, 50}, c \in {100, 101, 104} }
    \cup { WithVolume(StockFrame(n, 106, 3100, NoRows, NoRows, NoRows), e, 5000) :
             n \in {30, 50}, e \in {2, 21, 22} }

\* a feed of k items that all give the ticker the score
RECURSIVE Repeat(_, _)
Repeat(item, k) == IF k = 0 THEN <<>> ELSE <<item>> \o Repeat(item, k - 1)

\* The feeds get_news_sentiment is applied to
NewsInputs(ticker) ==
    { <<>>,
      << NewsItem(ticker, Q(3, 10)) >>,
      << NewsItem(ticker, Q(2, 10)) >>,
      << NewsItem(ticker, Q(-2, 10)) >>,
      << NewsItem(ticker, Q(-3, 10)) >>,
      << NewsItem(ticker, QInt(0)) >>,
      << NewsItem("SPY", Q(5, 10)) >>,
      << NewsItem(ticker, Q(1, 10)), NewsItem(ticker, Q(3, 10)) >>,
      << NewsItem(ticker, Q(3, 10)), NewsItem(ticker, QInt(0)) >>,
      << NewsItem("SPY", Q(-5, 10)) \o NewsItem(ticker, Q(4, 10)) >>,
      Repeat(NewsItem(ticker, Q(-3, 10)), 5) \o << NewsItem(ticker, Q(9, 10)) >> }

\* the feeds by ticker
NewsInputsOf == [t \in StockTickers |-> NewsInputs(t)]

\* main() at the head of the stock loop, Technology being the only sector
\* with a momentum and the one selected
InitBreakout ==
    /\ prog = "smart"
    /\ pc = "STOCK_SCAN"
    /\ stock_cfg = SectorNames
    /\ df = None
    /\ news = <<>>
    /\ requested = [k \in 1..Len(SECTOR_ETFS) |-> SECTOR_ETFS[k][1]]
    /\ news_requested = <<>>
    /\ sector_scores = << <<"Technology", QInt(2)>> >>
    /\ sorted_sectors = << <<"Technology", QInt(2)>> >>
    /\ strongest_sector = Some(<<"Technology", QInt(2)>>)
    /\ sector_stocks = ShippedStocks["Technology"]
    /\ breakout_candidates = <<>>
    /\ df_results = <<>>
    /\ results = <<>>
    /\ ranking = <<>>
    /\ sector_data = <<>>
    /\ report = <<>>
    /\ idx = 1

\* the stock scan: any of the series for the first ticker of the list
NextBreakout ==
    \/ idx = 1 /\ SmartStockStep(StockInputs, NewsInputsOf)
    \/ idx > 1 /\ SmartStockStep(StockFeed, NewsFeedOf)
    \/ SmartStocksDone
    \/ SmartStockRank

SpecBreakout == InitBreakout /\ [][NextBreakout]_vars

-----------------------------------------------------------------------------
(* Specification of a run of the breakout scanner to its end *)

InitSmart == Init /\ prog = "smart"

NextSmart ==
    \/ Begin
    \/ SmartSectorStep(SectorFeed)
    \/ SmartSectorsDone
    \/ SmartRank
    \/ SmartSelect
    \/ SmartStockStep(StockFeed, NewsFeedOf)
    \/ SmartStocksDone
    \/ SmartStockRank

\* main() is one thread that runs each statement after the one before it: a
\* request returns (a series or None) and time.sleep(0.5) ends, so a step
\* that can be taken is taken
SpecSmart == InitSmart /\ [][NextSmart]_vars /\ WF_vars(NextSmart)

-----------------------------------------------------------------------------
(* Properties *)

\* a stock of the selected sector has been scanned; df is its series
Scanned ==
    /\ prog = "smart"
    /\ pc \in {"STOCK_SCAN", "STOCK_RANK", "DONE", "NO_BREAKOUTS"}
    /\ idx > 1

LastTicker == sector_stocks[idx - 1]

IsCandidate(t) ==
    \E k \in 1..Len(breakout_candidates) : breakout_candidates[k].ticker = t

CandidateOf(t) ==
    breakout_candidates[CHOOSE k \in 1..Len(breakout_candidates) :
                            breakout_candidates[k].ticker = t]

\* the last close is above every High of the 20 rows before the last row
AbovePriorHigh(d) ==
    /\ Len(d) >= 21
    /\ \A e \in 2..21 : d[Len(d)].Close > d[Len(d) - e + 1].High

\* C1: a stock is a candidate only if its last close is strictly above the
\* highest High of the 20 rows before the last one; otherwise the scan adds
\* nothing for it, and the sorted output holds candidates only.
C1_BreakoutGate ==
    Scanned =>
        /\ IsCandidate(LastTicker) => AbovePriorHigh(df)
        /\ ~AbovePriorHigh(df) => IsNone(check_breakout_quality(df, LastTicker))
        /\ \A k \in 1..Len(df_results) : IsCandidate(df_results[k].ticker)

\* a scan that ended without output although its last stock closed at or
\* below the prior high on more than three times the average volume
C1_Witness ==
    /\ Scanned
    /\ pc = "NO_BREAKOUTS"
    /\ Len(df) >= 30
    /\ ~AbovePriorHigh(df)
    /\ df[Len(df)].Volume > 3000
    /\ df_results = <<>>

\* the first sector of a rotation scan has been analyzed; df is its series
Analyzed == prog = "rotation" /\ idx = 2 /\ Len(df) >= 20

\* 0.5 * p1 + 0.3 * p5 + 0.2 * p20 on one denominator, p being
\* (c - old) / old * 100 with c the last close and old the close 2, 5 and 20
\* rows from the end
WeightedSum(d) ==
    LET c == d[Len(d)].Close
        o1 == d[Len(d) - 1].Close
        o5 == d[Len(d) - 4].Close
        o20 == d[Len(d) - 19].Close
    IN  Q(100 * (5 * (c - o1) * o5 * o20 + 3 * (c - o5) * o1 * o20
                 + 2 * (c - o20) * o1 * o5),
          10 * o1 * o5 * o20)

\* C2: for a series of at least 20 rows the momentum score is
\* 0.5 * pct_change_1d + 0.3 * pct_change_5d + 0.2 * pct_change_20d with the
\* last row as the current value, and the record carries it to 2 decimals.
C2_MomentumWeights ==
    Analyzed =>
        /\ momentum_score(df) = WeightedSum(df)
        /\ Len(results) = 1
        /\ results[1].Momentum_Score = Round(WeightedSum(df), 2)

\* a series whose three changes differ, so that each weight counts
C2_Witness ==
    /\ Analyzed
    /\ Len(results) = 1
    /\ results[1].Change_1D # results[1].Change_5D
    /\ results[1].Change_5D # results[1].Change_20D
    /\ results[1].Change_1D # results[1].Change_20D
    /\ results[1].Momentum_Score.n # 0

\* C3: the trend label is STRONG BUY when score > 1.5 and volume trend > 0,
\* else BUYING when score > 0.5, else STRONG SELL when score < -1.5 and
\* volume trend > 0, else SELLING when score < -0.5, else NEUTRAL: exactly
\* one of the five for every pair.
C3_TrendLabel ==
    Analyzed =>
        LET score == WeightedSum(df)
            vol == vol_trend(df)
            label == results[1].Trend
            strong_buy == QGt(score, Q(3, 2)) /\ QGt(vol, QInt(0))
            strong_sell == QLt(score, Q(-3, 2)) /\ QGt(vol, QInt(0))
        IN  /\ label \in {"STRONG BUY", "BUYING", "STRONG SELL", "SELLING", "NEUTRAL"}
            /\ label = "STRONG BUY" <=> strong_buy
            /\ label = "BUYING" <=> ~strong_buy /\ QGt(score, Q(1, 2))
            /\ label = "STRONG SELL" <=> strong_sell
            /\ label = "SELLING" <=> ~strong_sell /\ QLt(score, Q(-1, 2))
            /\ label = "NEUTRAL" <=> QLe(Q(-1, 2), score) /\ QLe(score, Q(1, 2))

\* a score of 2.0 on a rising volume, labelled STRONG BUY
C3_Witness ==
    /\ Analyzed
    /\ WeightedSum(df) = QInt(2)
    /\ QGt(vol_trend(df), QInt(0))
    /\ results[1].Trend = "STRONG BUY"

\* C4: the news step adds 10 to the quality score when the average sentiment
\* is above 0.2, takes 10 off when it is below -0.2 and leaves it as scored
\* otherwise, 0.2 and -0.2 included; without a summary the score is as scored
\* and news_count is 0.
C4_SentimentStep ==
    (Scanned /\ IsCandidate(LastTicker)) =>
        LET c == CandidateOf(LastTicker)
            base == check_breakout_quality(df, LastTicker)[1].quality_score
            summary == get_news_sentiment(news, LastTicker)
        IN  IF IsNone(summary)
            THEN c.quality_score = base /\ c.news_count = 0
            ELSE LET avg == summary[1].avg_sentiment
                 IN  /\ QGt(avg, Q(1, 5)) => c.quality_score = base + 10
                     /\ QLt(avg, Q(-1, 5)) => c.quality_score = base - 10
                     /\ (QLe(Q(-1, 5), avg) /\ QLe(avg, Q(1, 5))) => c.quality_score = base
                     /\ c.news_count > 0

\* a candidate whose average sentiment is exactly 0.2 and whose score was left alone
C4_Witness ==
    /\ Scanned
    /\ IsCandidate(LastTicker)
    /\ ~IsNone(get_news_sentiment(news, LastTicker))
    /\ get_news_sentiment(news, LastTicker)[1].avg_sentiment = Q(1, 5)
    /\ CandidateOf(LastTicker).quality_score
           = check_breakout_quality(df, LastTicker)[1].quality_score

\* the position of x in a sequence of distinct items
PosIn(seq, x) == CHOOSE k \in 1..Len(seq) : seq[k] = x

\* out holds the items of inp, keys descending, equal keys in the order of
\* inp; keys[k] is the key of inp[k]
IsStableDesc(out, inp, keys) ==
    /\ Len(out) = Len(inp)
    /\ \A k \in 1..Len(inp) : \E j \in 1..Len(out) : out[j] = inp[k]
    /\ \A k \in 1..(Len(out) - 1) :
          LET a == PosIn(inp, out[k])
              b == PosIn(inp, out[k + 1])
          IN  \/ QGt(keys[a], keys[b])
              \/ keys[a] = keys[b] /\ a < b

\* C5: the sector ranking is the stable descending sort of the analyzed
\* sectors by momentum score: scores never rise along it, and sectors of
\* equal score keep their enumeration order.
C5_StableRanking ==
    /\ (prog = "rotation" /\ pc \in {"IDENTIFY", "DONE"}) =>
           IsStableDesc(ranking, results, Momentum_Scores(results))
    /\ (prog = "smart" /\ pc \notin {"INIT", "SECTOR_SCAN", "SECTOR_RANK", "NO_SECTORS"}) =>
           IsStableDesc(sorted_sectors, sector_scores,
                        [k \in 1..Len(sector_scores) |-> sector_scores[k][2]])

\* C5, as the code has it: the rotation ranking holds the analyzed sectors
\* with scores that never rise, equal scores in any order (sort_values without
\* a stable kind); the ranking of the breakout scanner (sorted) is stable.
C5_DescendingRanking ==
    /\ (prog = "rotation" /\ pc \in {"IDENTIFY", "DONE"}) =>
           /\ Len(ranking) = Len(results)
           /\ \A k \in 1..Len(results) : \E j \in 1..Len(ranking) : ranking[j] = results[k]
           /\ \A k \in 1..(Len(ranking) - 1) :
                  QLe(ranking[k + 1].Momentum_Score, ranking[k].Momentum_Score)
    /\ (prog = "smart" /\ pc \notin {"INIT", "SECTOR_SCAN", "SECTOR_RANK", "NO_SECTORS"}) =>
           IsStableDesc(sorted_sectors, sector_scores,
                        [k \in 1..Len(sector_scores) |-> sector_scores[k][2]])

HasUniverse(sector_name) == SECTOR_STOCKS_get(stock_cfg, sector_name) # <<>>

\* the selection has been made and a sector was found
Selected ==
    /\ prog = "smart"
    /\ pc \in {"STOCK_SCAN", "STOCK_RANK", "DONE", "NO_BREAKOUTS"}

\* C6: the stock scan works on one sector, the analyzed sector with a stock
\* list that no other analyzed sector with a stock list outranks; sectors
\* without a list are passed over; when no analyzed sector has a list the
\* scan ends there and no stock is requested.
C6_SectorSelection ==
    /\ (prog = "smart" /\ pc = "NO_ELIGIBLE") =>
           /\ \A k \in 1..Len(sector_scores) : ~HasUniverse(sector_scores[k][1])
           /\ Len(requested) = Len(SECTOR_ETFS)
           /\ breakout_candidates = <<>>
    /\ Selected =>
           \E k \in 1..Len(sector_scores) :
               /\ strongest_sector = Some(sector_scores[k])
               /\ HasUniverse(sector_scores[k][1])
               /\ sector_stocks = SECTOR_STOCKS_get(stock_cfg, sector_scores[k][1])
               /\ \A j \in 1..Len(sector_scores) :
                      HasUniverse(sector_scores[j][1]) =>
                          \/ QLt(sector_scores[j][2], sector_scores[k][2])
                          \/ sector_scores[j][2] = sector_scores[k][2] /\ k <= j
               /\ \A i \in (Len(SECTOR_ETFS) + 1)..Len(requested) :
                      \E m \in 1..Len(sector_stocks) : requested[i] = sector_stocks[m]

\* the top sector of the ranking has no stock list and a stock of the next
\* sector with one has been scanned
C6_Witness ==
    /\ Selected
    /\ idx > 1
    /\ ~HasUniverse(sorted_sectors[1][1])
    /\ strongest_sector[1][1] # sorted_sectors[1][1]
    /\ QLt(strongest_sector[1][2], sorted_sectors[1][2])

InScores(sector_name) ==
    \E k \in 1..Len(sector_scores) : sector_scores[k][1] = sector_name

\* C7: a sector is missing from the scores exactly when its series is
\* unavailable or shorter than 20 rows; a series of 20 rows or more is scored
\* whatever its momentum is.
C7_LeftOutOnlyWhenShort ==
    (prog = "smart" /\ pc = "SECTOR_SCAN" /\ idx > 1) =>
        (InScores(SECTOR_ETFS[idx - 1][2]) <=> Len(df) >= 20)

\* C7, as the code has it: a sector is scored exactly when its series has 20
\* rows or more and its momentum is not 0.0 ("if momentum:").
C7_LeftOutWhenShortOrFlat ==
    (prog = "smart" /\ pc = "SECTOR_SCAN" /\ idx > 1) =>
        (InScores(SECTOR_ETFS[idx - 1][2])
             <=> (Len(df) >= 20 /\ smart_momentum_score(df) # QInt(0)))

\* the sector loop is over, the empty-input test or the ranking call has been
\* made, and no sector gave metrics
NoSectorUsable ==
    /\ pc \notin {"INIT", "SECTOR_SCAN", "SECTOR_RANK"}
    /\ prog = "smart" => sector_scores = <<>>
    /\ prog = "rotation" => results = <<>>
    /\ prog = "clickup" => rankings(sector_data) = <<>>

\* C8: a scan in which no sector gives metrics stops in the outcome "no
\* sectors" without a crash: nothing is ranked, no report with a regime is
\* made and no stock is requested.
C8_NoSectorsHalt ==
    /\ pc # "CRASHED"
    /\ NoSectorUsable =>
           /\ pc = "NO_SECTORS"
           /\ ranking = <<>>
           /\ sorted_sectors = <<>>
           /\ DOMAIN report = {}
           /\ Len(requested) = Len(SECTOR_ETFS)

\* C8, as the code has it: the two scanners stop in "no sectors" with nothing
\* ranked; the ClickUp script calls rank_sectors all the same and ends in its
\* KeyError, and it crashes in no other case.
C8_NoSectorsOutcome ==
    /\ (prog # "clickup" /\ NoSectorUsable) =>
           /\ pc = "NO_SECTORS"
           /\ ranking = <<>>
           /\ sorted_sectors = <<>>
           /\ DOMAIN report = {}
           /\ Len(requested) = Len(SECTOR_ETFS)
    /\ (prog = "clickup" /\ NoSectorUsable) => pc = "CRASHED"
    /\ pc = "CRASHED" => (prog = "clickup" /\ rankings(sector_data) = <<>>)

SectorTickers == [k \in 1..Len(SECTOR_ETFS) |-> SECTOR_ETFS[k][1]]

SectorNamesInOrder == [k \in 1..Len(SECTOR_ETFS) |-> SECTOR_ETFS[k][2]]

\* the items of seq appear in enumeration in the same relative order
InOrderOf(seq, enumeration) ==
    /\ \A k \in 1..Len(seq) : \E m \in 1..Len(enumeration) : enumeration[m] = seq[k]
    /\ \A k \in 1..(Len(seq) - 1) :
          PosIn(enumeration, seq[k]) < PosIn(enumeration, seq[k + 1])

\* C9: whatever a fetch returns, every instrument of the enumeration is
\* requested, in order: the sector loop requests each sector and the stock
\* loop each stock of the selected sector; an instrument without a series
\* adds nothing, and the kept ones stay in enumeration order.
C9_ScanGoesOn ==
    /\ pc = "INIT" => requested = <<>>
    /\ pc = "SECTOR_SCAN" => requested = SubSeq(SectorTickers, 1, idx - 1)
    /\ pc \notin {"INIT", "SECTOR_SCAN", "STOCK_SCAN", "STOCK_RANK", "DONE", "NO_BREAKOUTS"} =>
           requested = SectorTickers
    /\ (prog # "smart" /\ pc = "DONE") => requested = SectorTickers
    /\ (prog = "smart" /\ pc = "STOCK_SCAN") =>
           requested = SectorTickers \o SubSeq(sector_stocks, 1, idx - 1)
    /\ (prog = "smart" /\ pc \in {"STOCK_RANK", "DONE", "NO_BREAKOUTS"}) =>
           requested = SectorTickers \o sector_stocks
    /\ InOrderOf([k \in 1..Len(sector_scores) |-> sector_scores[k][1]], SectorNamesInOrder)
    /\ InOrderOf([k \in 1..Len(results) |-> results[k].Ticker], SectorTickers)
    /\ InOrderOf([k \in 1..Len(sector_data) |-> sector_data[k].symbol], SectorTickers)
    /\ InOrderOf([k \in 1..Len(breakout_candidates) |-> breakout_candidates[k].ticker],
                 sector_stocks)
    /\ (pc = "SECTOR_SCAN" /\ idx > 1 /\ IsNone(df)) =>
           /\ ~InScores(SECTOR_ETFS[idx - 1][2])
           /\ \A k \in 1..Len(results) : results[k].Ticker # SECTOR_ETFS[idx - 1][1]
    /\ (pc = "STOCK_SCAN" /\ idx > 1 /\ IsNone(df)) => ~IsCandidate(LastTicker)

\* the fetch of the second sector failed after the first sector was analyzed,
\* and the scan stands before the third one
C9_Witness ==
    /\ prog = "rotation"
    /\ pc = "SECTOR_SCAN"
    /\ idx = 3
    /\ IsNone(df)
    /\ Len(results) = 1
    /\ idx <= Len(SECTOR_ETFS)

\* C10: a stock whose series is missing or shorter than 30 rows gets no
\* result and no score, and the scan goes on to the next stock.
C10_ShortSeriesNotScored ==
    (Scanned /\ Len(df) < 30) =>
        /\ IsNone(check_breakout_quality(df, LastTicker))
        /\ ~IsCandidate(LastTicker)
        /\ requested[Len(requested)] = LastTicker

\* 29 rows whose last close is above every earlier High, and no candidate
C10_Witness ==
    /\ Scanned
    /\ Len(df) = 29
    /\ AbovePriorHigh(df)
    /\ df[29].Volume > 3000
    /\ ~IsCandidate(LastTicker)

\* the four sub-scores of a series of 30 rows or more, as
\* check_breakout_quality adds them up
SubScores(d) ==
    LET recent == TailRows(d, 50)
        close == QInt(FromEnd(recent, 1).Close)
        sma10 == SMA(recent, 10)
        sma20 == SMA(recent, 20)
    IN  [breakout |-> breakout_points(PctChange(close, prev_high(recent))),
         volume |-> volume_points(QDiv(QInt(FromEnd(recent, 1).Volume),
                                       avg_volume(recent))),
         trend |-> trend_points(above_sma(close, sma10), above_sma(close, sma20),
                                uptrend(sma10, sma20)),
         consolidation |-> consolidation_points(price_range(recent))]

\* the quality score check_breakout_quality returned for the last stock
BaseScore == check_breakout_quality(df, LastTicker)[1].quality_score

\* C11: for every candidate each of the four sub-scores (breakout strength,
\* volume, trend, consolidation) is between 0 and 25, and the quality score
\* before the news step is their sum, between 0 and 100.
C11_SubScoreBounds ==
    (Scanned /\ IsCandidate(LastTicker)) =>
        LET sub == SubScores(df)
        IN  /\ sub.breakout \in 0..25
            /\ sub.volume \in 0..25
            /\ sub.trend \in 0..25
            /\ sub.consolidation \in 0..25
            /\ BaseScore = sub.breakout + sub.volume + sub.trend + sub.consolidation
            /\ BaseScore \in 0..100

\* a candidate with the top tier in all four sub-scores: a base score of 100
C11_Witness ==
    /\ Scanned
    /\ IsCandidate(LastTicker)
    /\ SubScores(df) = [breakout |-> 25, volume |-> 25, trend |-> 25, consolidation |-> 25]
    /\ BaseScore = 100

\* the summary of the news fetched for the last stock
LastSummary == get_news_sentiment(news, LastTicker)

\* rows holds the items of items, each as often
IsRearrangement(rows, items) ==
    /\ Len(rows) = Len(items)
    /\ \A k \in 1..Len(items) :
          Cardinality({j \in 1..Len(rows) : rows[j] = items[k]})
              = Cardinality({j \in 1..Len(items) : items[j] = items[k]})

\* C12: the news step does not clamp: a base score above 90 with an average
\* sentiment above 0.2 becomes base + 10, above 100 (below 10 with one below
\* -0.2, base - 10), and the ranked output carries the scores as adjusted.
C12_NoClamping ==
    /\ (Scanned /\ IsCandidate(LastTicker) /\ ~IsNone(LastSummary)) =>
           LET c == CandidateOf(LastTicker)
               avg == LastSummary[1].avg_sentiment
           IN  /\ (BaseScore > 90 /\ QGt(avg, Q(1, 5))) =>
                      (c.quality_score = BaseScore + 10 /\ c.quality_score > 100)
               /\ (BaseScore < 10 /\ QLt(avg, Q(-1, 5))) =>
                      (c.quality_score = BaseScore - 10 /\ c.quality_score < 0)
    /\ (prog = "smart" /\ pc = "DONE") => IsRearrangement(df_results, breakout_candidates)

\* a finished scan whose output has a candidate with a score above 100
C12_Witness ==
    /\ prog = "smart"
    /\ pc = "DONE"
    /\ \E k \in 1..Len(df_results) : df_results[k].quality_score > 100

\* C13, as claimed: adjusting the adjusted score once more with the same
\* summary gives the same score.
C13_Idempotent ==
    (Scanned /\ IsCandidate(LastTicker) /\ ~IsNone(LastSummary)) =>
        LET c == CandidateOf(LastTicker)
            avg == LastSummary[1].avg_sentiment
        IN  adjusted_score(c.quality_score, avg) = c.quality_score

\* C13, amended: the scan adjusts a candidate's score once, so the score in
\* the list is one step of 10 or none away from the scorer's; a second
\* adjustment with the same summary would leave it alone only when the
\* average sentiment is within -0.2 .. 0.2.
C13_AdjustedOnce ==
    (Scanned /\ IsCandidate(LastTicker) /\ ~IsNone(LastSummary)) =>
        LET c == CandidateOf(LastTicker)
            avg == LastSummary[1].avg_sentiment
            inside == QLe(Q(-1, 5), avg) /\ QLe(avg, Q(1, 5))
        IN  /\ c.quality_score - BaseScore \in {-10, 0, 10}
            /\ c.quality_score = BaseScore <=> inside
            /\ adjusted_score(c.quality_score, avg) = c.quality_score <=> inside
            /\ QGt(avg, Q(1, 5)) =>
                   adjusted_score(c.quality_score, avg) = BaseScore + 20

\* a candidate adjusted by +10 for which a second adjustment would give +20
C13_Witness ==
    /\ Scanned
    /\ IsCandidate(LastTicker)
    /\ ~IsNone(LastSummary)
    /\ QGt(LastSummary[1].avg_sentiment, Q(1, 5))
    /\ CandidateOf(LastTicker).quality_score = BaseScore + 10
    /\ adjusted_score(CandidateOf(LastTicker).quality_score,
                      LastSummary[1].avg_sentiment) = BaseScore + 20

\* the stages of the breakout scanner in their order
StageOrder ==
    <<"INIT", "SECTOR_SCAN", "SECTOR_RANK", "SELECT", "STOCK_SCAN", "STOCK_RANK", "DONE">>

\* the early returns: no sector scored, no sector with stocks, no breakout
EarlyReturns == {"NO_SECTORS", "NO_ELIGIBLE", "NO_BREAKOUTS"}

StageNo(stage) == CHOOSE k \in 1..Len(StageOrder) : StageOrder[k] = stage

\* C14: a run of the breakout scanner enters its stages in the order INIT,
\* SECTOR_SCAN, SECTOR_RANK, SELECT, STOCK_SCAN, STOCK_RANK, DONE, one after
\* the other and none twice, or leaves by an early return and stays there; no
\* stock is requested before the selection and no sector request or sector
\* score is made after the sector loop.
C14_StageOrder ==
    [][prog = "smart" =>
          /\ \/ pc' = pc
             \/ /\ pc \notin EarlyReturns
                /\ pc' \notin EarlyReturns
                /\ StageNo(pc') = StageNo(pc) + 1
             \/ pc = "SECTOR_SCAN" /\ pc' = "NO_SECTORS"
             \/ pc = "SELECT" /\ pc' = "NO_ELIGIBLE"
             \/ pc = "STOCK_SCAN" /\ pc' = "NO_BREAKOUTS"
          /\ pc \notin {"INIT", "SECTOR_SCAN"} =>
                 /\ sector_scores' = sector_scores
                 /\ SubSeq(requested', 1, Len(SECTOR_ETFS)) = SubSeq(requested, 1, Len(SECTOR_ETFS))
          /\ pc # "SECTOR_SCAN" => sector_scores' = sector_scores
          /\ pc' \in {"INIT", "SECTOR_SCAN", "SECTOR_RANK", "SELECT", "NO_SECTORS", "NO_ELIGIBLE"} =>
                 /\ Len(requested') <= Len(SECTOR_ETFS)
                 /\ breakout_candidates' = <<>>
          /\ pc # "STOCK_SCAN" => /\ breakout_candidates' = breakout_candidates
                                  /\ requested' = requested \/ pc = "SECTOR_SCAN"
    ]_vars

\* a run that went through every stage and ranked a candidate
C14_Witness ==
    /\ prog = "smart"
    /\ pc = "DONE"
    /\ df_results # <<>>
    /\ Len(requested) = Len(SECTOR_ETFS) + Len(sector_stocks)

\* C15: the final list holds the candidates of the selected sector ordered by
\* quality score, highest first, the score being the one after the news step:
\* no row has a lower score than the row after it.
C15_CandidatesRanked ==
    (prog = "smart" /\ pc = "DONE") =>
        /\ IsRearrangement(df_results, breakout_candidates)
        /\ \A k \in 1..(Len(df_results) - 1) :
               df_results[k].quality_score >= df_results[k + 1].quality_score
        /\ \A k \in 1..Len(df_results) :
               \E m \in 1..Len(sector_stocks) : df_results[k].ticker = sector_stocks[m]

\* two ranked candidates, the first scanned later than the second and ahead
\* of it by the news step alone: its score before the step was the lower one
C15_Witness ==
    /\ prog = "smart"
    /\ pc = "DONE"
    /\ Len(df_results) = 2
    /\ df_results[1].ticker = breakout_candidates[2].ticker
    /\ df_results[1].quality_score > df_results[2].quality_score
    /\ QGt(df_results[1].news_sentiment, Q(1, 5))
    /\ QLt(df_results[2].news_sentiment, Q(-1, 5))
    /\ df_results[1].quality_score - 10 < df_results[2].quality_score + 10

\* the mean score of the ranked sectors of a finished rotation or ClickUp scan
RankedMean ==
    IF prog = "rotation" THEN QMean(Momentum_Scores(ranking))[1]
    ELSE QMean(Scores(ranking))[1]

Reported == prog \in {"rotation", "clickup"} /\ pc = "DONE"

\* C16: the regime of a finished scan is RISK_ON exactly when the mean score
\* of the ranked sectors is above 0.5, RISK_OFF exactly when it is below -0.5
\* and NEUTRAL otherwise, in the rotation scanner and in the ClickUp script.
C16_RegimeThreshold ==
    Reported =>
        /\ report.mode = "RISK_ON" <=> QGt(RankedMean, Q(1, 2))
        /\ report.mode = "RISK_OFF" <=> QLt(RankedMean, Q(-1, 2))
        /\ report.mode = "NEUTRAL" <=>
               (QLe(Q(-1, 2), RankedMean) /\ QLe(RankedMean, Q(1, 2)))

\* C16, as the code has it: the rotation scanner classifies at 0.5 and -0.5,
\* the ClickUp script at 1 and -1.
C16_RegimeAsCoded ==
    Reported =>
        LET limit == IF prog = "rotation" THEN Q(1, 2) ELSE QInt(1)
            lower == IF prog = "rotation" THEN Q(-1, 2) ELSE QInt(-1)
        IN  /\ report.mode = "RISK_ON" <=> QGt(RankedMean, limit)
            /\ report.mode = "RISK_OFF" <=> QLt(RankedMean, lower)
            /\ report.mode = "NEUTRAL" <=>
                   (QLe(lower, RankedMean) /\ QLe(RankedMean, limit))

\* the scores of the ranked sectors whose name is in group
GroupScores(group) ==
    LET rows == SelectSeq(ranking, LAMBDA r : r.Sector \in group)
    IN  [k \in 1..Len(rows) |-> rows[k].Momentum_Score]

GroupAverage(group) == QDiv(QSum(GroupScores(group)), QInt(Len(GroupScores(group))))

CyclicalSectors == {"Technology", "Consumer Discretionary", "Industrials", "Financials"}

DefensiveSectors == {"Utilities", "Consumer Staples", "Healthcare"}

\* C17: with c the mean score of the ranked cyclical sectors and d that of
\* the ranked defensive ones, the signal is CYCLICAL exactly when c > d + 0.5,
\* DEFENSIVE exactly when d > c + 0.5 and BALANCED otherwise; with no ranked
\* sector in one of the groups it is BALANCED.
C17_RotationSignal ==
    (prog = "rotation" /\ pc = "DONE") =>
        IF GroupScores(CyclicalSectors) = <<>> \/ GroupScores(DefensiveSectors) = <<>>
        THEN report.rotation = "BALANCED"
        ELSE LET c == GroupAverage(CyclicalSectors)
                 d == GroupAverage(DefensiveSectors)
             IN  /\ report.rotation \in {"CYCLICAL", "DEFENSIVE", "BALANCED"}
                 /\ report.rotation = "CYCLICAL" <=> QGt(c, QAdd(d, Q(1, 2)))
                 /\ report.rotation = "DEFENSIVE" <=> QGt(d, QAdd(c, Q(1, 2)))
                 /\ ~(QGt(c, QAdd(d, Q(1, 2))) /\ QGt(d, QAdd(c, Q(1, 2))))

\* defensive sectors ahead of the cyclical ones by more than 0.5, two
\* cyclical sectors being ranked
C17_Witness ==
    /\ prog = "rotation"
    /\ pc = "DONE"
    /\ Len(GroupScores(CyclicalSectors)) = 2
    /\ Len(GroupScores(DefensiveSectors)) = 1
    /\ GroupScores(CyclicalSectors)[1] # GroupScores(CyclicalSectors)[2]
    /\ report.rotation = "DEFENSIVE"

\* a sector of a rotation scan has just been analyzed; df is its series
JustAnalyzed == prog = "rotation" /\ pc = "SECTOR_SCAN" /\ idx > 1 /\ Len(df) >= 20

\* a finished rotation scan whose only ranked sector is the last one; df is
\* its series
OnlyLastRanked == prog = "rotation" /\ pc = "DONE" /\ Len(ranking) = 1 /\ Len(df) >= 20

\* C18: rounding is for display only: the score that the ranking sorts on and
\* that the averages are taken of is the unrounded momentum score.
C18_UnroundedUsed ==
    /\ JustAnalyzed => results[Len(results)].Momentum_Score = momentum_score(df)
    /\ OnlyLastRanked =>
           /\ ranking[1].Momentum_Score = momentum_score(df)
           /\ report.avg_momentum = momentum_score(df)

\* C18, as the code has it: the record holds round(momentum_score, 2), and
\* that is what is sorted and averaged; only the trend label is taken from the
\* unrounded score.
C18_RoundedUsed ==
    /\ JustAnalyzed =>
           /\ results[Len(results)].Momentum_Score = Round(momentum_score(df), 2)
           /\ results[Len(results)].Trend = trend(momentum_score(df), vol_trend(df))
    /\ OnlyLastRanked =>
           /\ ranking[1].Momentum_Score = Round(momentum_score(df), 2)
           /\ report.avg_momentum = Round(momentum_score(df), 2)

\* a sector has just been fetched; df is its series
SectorFetched == pc = "SECTOR_SCAN" /\ idx > 1

\* the sector fetched last has a score: a smart momentum, a result row or metrics
LastSectorScored ==
    \/ prog = "smart" /\ InScores(SECTOR_ETFS[idx - 1][2])
    \/ prog = "rotation"
         /\ \E k \in 1..Len(results) : results[k].Ticker = SECTOR_ETFS[idx - 1][1]
    \/ prog = "clickup" /\ ~IsNone(sector_data[Len(sector_data)].metrics)

\* the rows the changes of a program read, counted from the end: the two
\* scanners go back to row 20 (tail(20).iloc[0]), the ClickUp script to row 21
\* (iloc[-21])
RowsNeeded == IF prog = "clickup" THEN 21 ELSE 20

\* C19: a sector whose series does not reach back to the row that one of its
\* percentage changes reads is left unscored; none is scored with a value put
\* in for the missing change.
C19_NoScoreOnShortWindow ==
    (SectorFetched /\ LastSectorScored) => Len(df) >= RowsNeeded

\* C19, as the code has it: the two scanners score from 20 rows on, which all
\* their changes can read; the ClickUp script scores from 20 rows on too and
\* takes the 20-day change as 0 when there is no 21st row.
C19_ClickupSubstitutesZero ==
    /\ (SectorFetched /\ LastSectorScored) => Len(df) >= 20
    /\ (SectorFetched /\ prog = "clickup" /\ Len(df) = 20) =>
           LET metrics == sector_data[Len(sector_data)].metrics[1]
           IN  /\ metrics.day_20 = QInt(0)
               /\ clickup_score(metrics)
                      = QAdd(QMul(metrics.day_1, Q(3, 10)), QMul(metrics.day_5, Q(2, 5)))

\* the record check_breakout_quality returned for the last stock
Returned == check_breakout_quality(df, LastTicker)[1]

\* C20: a candidate record stays as check_breakout_quality returned it: every
\* field it was returned with has the same value in the candidate list, the
\* news step included.
C20_CandidateUnchanged ==
    (Scanned /\ IsCandidate(LastTicker)) =>
        \A f \in DOMAIN Returned : CandidateOf(LastTicker)[f] = Returned[f]

\* C20, as the code has it: the news step writes into the returned dict: it
\* adds news_sentiment, news_count and has_news and moves quality_score by 10
\* when the average sentiment is beyond 0.2; the other fields stay.
C20_NewsStepWritesRecord ==
    (Scanned /\ IsCandidate(LastTicker)) =>
        LET c == CandidateOf(LastTicker)
        IN  /\ DOMAIN c = DOMAIN Returned \cup {"news_sentiment", "news_count", "has_news"}
            /\ \A f \in DOMAIN Returned \ {"quality_score"} : c[f] = Returned[f]
            /\ c.quality_score # Returned.quality_score <=>
                   /\ ~IsNone(LastSummary)
                   /\ \/ QGt(LastSummary[1].avg_sentiment, Q(1, 5))
                      \/ QLt(LastSummary[1].avg_sentiment, Q(-1, 5))

\* the sector fetched last by the breakout scanner has a score; df is its series
SmartScored ==
    /\ prog = "smart"
    /\ pc = "SECTOR_SCAN"
    /\ idx > 1
    /\ InScores(SECTOR_ETFS[idx - 1][2])

\* the score the breakout scanner keeps for the sector fetched last
LastSmartScore == sector_scores[Len(sector_scores)][2]

\* C21: the momentum by which the breakout scanner orders the sectors and
\* picks the strongest one is the momentum score that the sector analyzer
\* computes from the same series.
C21_SameMomentum ==
    SmartScored => LastSmartScore = momentum_score(df)

\* C21, as the code has it: the breakout scanner has an analysis of its own,
\* 0.5 * pct_change_1d + 0.5 * pct_change_5d without a 20-day term, and it
\* is the analyzer's score only when the 5-day and the 20-day change agree.
C21_TwoTermMomentum ==
    SmartScored =>
        /\ LastSmartScore = QAdd(QMul(price_1d(df), Q(1, 2)), QMul(price_5d(df), Q(1, 2)))
        /\ LastSmartScore = momentum_score(df) <=> price_5d(df) = price_20d(df)

\* the quality score of the last candidate before the news step moved it
ScoredBase ==
    LET c == CandidateOf(LastTicker)
    IN  IF IsNone(LastSummary) THEN c.quality_score
        ELSE c.quality_score - adjusted_score(0, LastSummary[1].avg_sentiment)

\* the rows of d from the a-th to the b-th from the end, a >= b
RowsBack(d, a, b) == {d[Len(d) - e + 1] : e \in b..a}

\* the highest High of the 20 rows before the last row
PriorHigh(d) ==
    CHOOSE h \in {r.High : r \in RowsBack(d, 21, 2)} :
        \A r \in RowsBack(d, 21, 2) : r.High <= h

\* the points of the last candidate for breakout strength: its score as
\* scored less the points for volume, trend and consolidation
BreakoutPart ==
    ScoredBase - SubScores(df).volume - SubScores(df).trend - SubScores(df).consolidation

\* C22: with h the highest High of the 20 rows before the last row and c the
\* last close, breakout_pct is (c - h) / h * 100 and the breakout points are
\* 25 when it is above 5, else 20 when above 3, else 15 when above 1, else
\* 10; exactly 5, 3 or 1 gives the lower tier.
C22_BreakoutTiers ==
    (Scanned /\ IsCandidate(LastTicker)) =>
        LET h == PriorHigh(df)
            gain == 100 * (df[Len(df)].Close - h)
        IN  /\ CandidateOf(LastTicker).breakout_pct = Round(Q(gain, h), 2)
            /\ CandidateOf(LastTicker).prev_high = QInt(h)
            /\ BreakoutPart = IF gain > 5 * h THEN 25
                              ELSE IF gain > 3 * h THEN 20
                              ELSE IF gain > h THEN 15
                              ELSE 10
            /\ gain = 5 * h => BreakoutPart = 20
            /\ gain = 3 * h => BreakoutPart = 15
            /\ gain = h => BreakoutPart = 10

\* a candidate exactly 5 % above the prior high, with 20 points for it
C22_Witness ==
    /\ Scanned
    /\ IsCandidate(LastTicker)
    /\ CandidateOf(LastTicker).breakout_pct = QInt(5)
    /\ BreakoutPart = 20

\* the volumes of the 20 rows before the last row, added up
PriorVolume(d) == SumOf([k \in 1..20 |-> d[Len(d) - k].Volume])

\* the points of the last candidate for volume
VolumePart ==
    ScoredBase - SubScores(df).breakout - SubScores(df).trend - SubScores(df).consolidation

\* C23: with v the volume of the last row and a the mean volume of the 20
\* rows before it (the last row not among them), volume_ratio is v / a and
\* the volume points are 25 when it is above 3, else 20 when above 2, else 15
\* when above 1.5, else 5.
C23_VolumeTiers ==
    (Scanned /\ IsCandidate(LastTicker)) =>
        LET v == df[Len(df)].Volume
            total == PriorVolume(df)
        IN  /\ CandidateOf(LastTicker).volume_ratio = Round(Q(20 * v, total), 2)
            /\ CandidateOf(LastTicker).avg_volume = total \div 20
            /\ CandidateOf(LastTicker).volume = v
            /\ VolumePart = IF 20 * v > 3 * total THEN 25
                            ELSE IF 20 * v > 2 * total THEN 20
                            ELSE IF 40 * v > 3 * total THEN 15
                            ELSE 5

\* a candidate whose last volume is above 3 times the usual one but not above
\* 3 times the mean of the 20 rows before it, one of which was heavy: 20 points
C23_Witness ==
    /\ Scanned
    /\ IsCandidate(LastTicker)
    /\ df[Len(df)].Volume = 3100
    /\ df[Len(df) - 20].Volume = 5000
    /\ PriorVolume(df) = 24000
    /\ VolumePart = 20

\* the closes of the last k rows, added up
LastCloses(d, k) == SumOf([j \in 1..k |-> d[Len(d) - j + 1].Close])

\* the points of the last candidate for trend alignment
TrendPart ==
    ScoredBase - SubScores(df).breakout - SubScores(df).volume
               - SubScores(df).consolidation

\* C24: with SMA10 and SMA20 the means of the last 10 and the last 20 closes,
\* the last row included, the trend points are 25 when the close is above
\* both and SMA10 > SMA20, 20 when it is above both and SMA10 <= SMA20, 10
\* when it is above exactly one of them and 0 when it is above neither.
C24_TrendTiers ==
    (Scanned /\ IsCandidate(LastTicker)) =>
        LET c == df[Len(df)].Close
            above10 == 10 * c > LastCloses(df, 10)
            above20 == 20 * c > LastCloses(df, 20)
            rising == 2 * LastCloses(df, 10) > LastCloses(df, 20)
        IN  /\ CandidateOf(LastTicker).sma_10 = Round(Q(LastCloses(df, 10), 10), 2)
            /\ CandidateOf(LastTicker).sma_20 = Round(Q(LastCloses(df, 20), 20), 2)
            /\ (above10 /\ above20 /\ rising) => TrendPart = 25
            /\ (above10 /\ above20 /\ ~rising) => TrendPart = 20
            /\ (above10 # above20) => TrendPart = 10
            /\ (~above10 /\ ~above20) => TrendPart = 0

\* a candidate above both averages after falling closes, SMA10 below SMA20:
\* 20 points
C24_Witness ==
    /\ Scanned
    /\ IsCandidate(LastTicker)
    /\ 10 * df[Len(df)].Close > LastCloses(df, 10)
    /\ 20 * df[Len(df)].Close > LastCloses(df, 20)
    /\ 2 * LastCloses(df, 10) < LastCloses(df, 20)
    /\ TrendPart = 20

\* the highest High less the lowest Low of the 10 rows before the last row
PriorSpread(d) ==
    LET rows == RowsBack(d, 11, 2)
        hi == CHOOSE h \in {r.High : r \in rows} : \A r \in rows : r.High <= h
        lo == CHOOSE l \in {r.Low : r \in rows} : \A r \in rows : l <= r.Low
    IN  hi - lo

\* the closes of the 10 rows before the last row, added up
PriorCloses(d) == SumOf([j \in 1..10 |-> d[Len(d) - j].Close])

\* the points of the last candidate for consolidation
ConsolidationPart ==
    ScoredBase - SubScores(df).breakout - SubScores(df).volume - SubScores(df).trend

\* C25: price_range is the highest High less the lowest Low over the mean
\* Close of the 10 rows that end just before the last row (the last row is
\* not one of them), and the consolidation points are 25 when it is below
\* 0.10, else 20 when below 0.15, else 15 when below 0.20, else 5.
C25_ConsolidationTiers ==
    (Scanned /\ IsCandidate(LastTicker)) =>
        LET spread == PriorSpread(df)
            closes == PriorCloses(df)
        IN  /\ price_range(TailRows(df, 50)) = Q(10 * spread, closes)
            /\ ConsolidationPart = IF 100 * spread < closes THEN 25
                                   ELSE IF 200 * spread < 3 * closes THEN 20
                                   ELSE IF 50 * spread < closes THEN 15
                                   ELSE 5

\* a candidate whose 10 rows before the last span exactly 10 % of their mean
\* close, the low being in the earliest of them: 20 points
C25_Witness ==
    /\ Scanned
    /\ IsCandidate(LastTicker)
    /\ df[Len(df) - 10].Low = 90
    /\ 100 * PriorSpread(df) = PriorCloses(df)
    /\ ConsolidationPart = 20

\* (c - old) / old * 100 with c the last close of d and old the close k rows
\* before the last row
ChangeOver(d, k) ==
    Q(100 * (d[Len(d)].Close - d[Len(d) - k].Close), d[Len(d) - k].Close)

\* the first sector of a rotation or ClickUp scan has been analyzed on a
\* series long enough to have a close 20 rows before the last; df is the series
AnalyzedLong ==
    /\ prog \in {"rotation", "clickup"}
    /\ idx = 2
    /\ Len(df) >= 21

\* the 1-day, 5-day and 20-day change recorded for that sector, to 2 decimals
RecordedChanges ==
    IF prog = "rotation"
    THEN <<results[1].Change_1D, results[1].Change_5D, results[1].Change_20D>>
    ELSE <<Round(sector_data[1].metrics[1].day_1, 2),
           Round(sector_data[1].metrics[1].day_5, 2),
           Round(sector_data[1].metrics[1].day_20, 2)>>

\* C26: the 1-day change compares the last close with the close 1 row
\* earlier, the 5-day change with the close 5 rows earlier and the 20-day
\* change with the close 20 rows earlier, each as (new - old) / old * 100
\* with the last close as new.
C26_ChangeOffsets ==
    AnalyzedLong =>
        RecordedChanges = <<Round(ChangeOver(df, 1), 2), Round(ChangeOver(df, 5), 2),
                            Round(ChangeOver(df, 20), 2)>>

\* C26, as the code has it: the rotation scanner reads the first row of
\* tail(5) and of tail(20), the closes 4 and 19 rows before the last one; the
\* ClickUp script reads iloc[-6] and iloc[-21], the closes 5 and 20 rows before.
C26_OffsetsAsCoded ==
    AnalyzedLong =>
        RecordedChanges =
            IF prog = "rotation"
            THEN <<Round(ChangeOver(df, 1), 2), Round(ChangeOver(df, 4), 2),
                   Round(ChangeOver(df, 19), 2)>>
            ELSE <<Round(ChangeOver(df, 1), 2), Round(ChangeOver(df, 5), 2),
                   Round(ChangeOver(df, 20), 2)>>

\* the first 5 items of the feed fetched last
TopItems == SubSeq(news, 1, IF Len(news) < 5 THEN Len(news) ELSE 5)

\* the score an item gives the ticker: that of its first entry for it
ScoreIn(item, t) == item[CHOOSE k \in 1..Len(item) : item[k].ticker = t].score

\* the scores of the items among the first 5 that mention the ticker, in order
MentionScores(t) ==
    LET hits == SelectSeq(TopItems, LAMBDA item : \E k \in 1..Len(item) : item[k].ticker = t)
    IN  [k \in 1..Len(hits) |-> ScoreIn(hits[k], t)]

\* those of them that are not 0.0
RECURSIVE NonZero(_)
NonZero(scores) ==
    IF scores = <<>> THEN <<>>
    ELSE (IF Head(scores).n = 0 THEN <<>> ELSE <<Head(scores)>>) \o NonZero(Tail(scores))

\* news_count and news_sentiment as they follow from a list of scores
SummaryOf(scores) ==
    IF scores = <<>>
    THEN [news_count |-> 0, news_sentiment |-> QInt(0), has_news |-> FALSE]
    ELSE [news_count |-> Len(scores),
          news_sentiment |-> Round(QDiv(QSum(scores), QInt(Len(scores))), 3),
          has_news |-> TRUE]

\* what the last candidate carries of its news
CarriedSummary ==
    [news_count |-> CandidateOf(LastTicker).news_count,
     news_sentiment |-> CandidateOf(LastTicker).news_sentiment,
     has_news |-> CandidateOf(LastTicker).has_news]

\* C27: the sentiment of a candidate is the mean score of all the items among
\* the first 5 of the feed that mention its ticker, and news_count is their
\* number, whatever the scores are.
C27_MeanOfMentions ==
    (Scanned /\ IsCandidate(LastTicker)) =>
        CarriedSummary = SummaryOf(MentionScores(LastTicker))

\* C27, as the code has it: an item whose score for the ticker is 0.0 is left
\* out of the mean and of the count ("if ticker_sentiment:").
C27_ZeroScoresDropped ==
    (Scanned /\ IsCandidate(LastTicker)) =>
        CarriedSummary = SummaryOf(NonZero(MentionScores(LastTicker)))

\* how often the ticker is in the sequence of calls
Calls(seq, t) == Cardinality({i \in 1..Len(seq) : seq[i] = t})

\* the sector loop is over
SectorsFetched == pc \notin {"INIT", "SECTOR_SCAN"}

\* the stock loop of the breakout scanner is over
StocksFetched == prog = "smart" /\ pc \in {"STOCK_RANK", "DONE", "NO_BREAKOUTS"}

\* the stocks of the sectors other than the selected one
OtherStocks ==
    UNION {{ShippedStocks[s][k] : k \in 1..Len(ShippedStocks[s])} :
               s \in SectorNames \ {strongest_sector[1][1]}}

\* C28: no series is requested twice, whatever the request returned; after
\* the sector loop every sector ETF has been requested once, after the stock
\* loop every stock of the selected sector once, and no stock of another
\* sector ever; the news of a ticker is requested at most once, only for a
\* ticker whose series was requested before and gave a candidate.
C28_FetchOnce ==
    /\ \A t \in StockTickers \cup {SECTOR_ETFS[k][1] : k \in 1..Len(SECTOR_ETFS)} :
           /\ Calls(requested, t) <= 1
           /\ Calls(news_requested, t) <= 1
    /\ SectorsFetched =>
           \A k \in 1..Len(SECTOR_ETFS) : Calls(requested, SECTOR_ETFS[k][1]) = 1
    /\ StocksFetched =>
           \A k \in 1..Len(sector_stocks) : Calls(requested, sector_stocks[k]) = 1
    /\ IsNone(strongest_sector) => \A t \in StockTickers : Calls(requested, t) = 0
    /\ ~IsNone(strongest_sector) => \A t \in OtherStocks : Calls(requested, t) = 0
    /\ \A t \in StockTickers :
           Calls(news_requested, t) = 1 => (Calls(requested, t) = 1 /\ IsCandidate(t))
    /\ (Scanned /\ Calls(news_requested, LastTicker) = 1) => AbovePriorHigh(df)
    /\ (Scanned /\ ~AbovePriorHigh(df)) => Calls(news_requested, LastTicker) = 0

\* a finished scan in which the first stock of the selected sector gave no
\* series and the next one a breakout: every stock asked for once, one news
\* request, and sectors with stocks that were not selected
C28_Witness ==
    /\ prog = "smart"
    /\ pc = "DONE"
    /\ Len(sector_stocks) >= 2
    /\ ~IsCandidate(sector_stocks[1])
    /\ IsCandidate(sector_stocks[Len(sector_stocks)])
    /\ Len(requested) = Len(SECTOR_ETFS) + Len(sector_stocks)
    /\ Len(news_requested) < Len(sector_stocks)
    /\ news_requested # <<>>
    /\ OtherStocks # {}

\* the ways main() of the breakout scanner returns
SmartOutcomes == {"DONE", "NO_SECTORS", "NO_ELIGIBLE", "NO_BREAKOUTS"}

\* no step is taken from an outcome
EndedForGood == [][(pc \in SmartOutcomes) => vars' = vars]_vars

\* C29: every run of the breakout scanner ends: whatever the requests
\* return, it makes no more requests than there are sectors and stocks of
\* one sector, reaches one of DONE (with a ranked list of candidates), no
\* sectors, no eligible sector and no breakouts, and takes no step after it.
C29_Terminates ==
    /\ <>(pc \in SmartOutcomes)
    /\ EndedForGood
    /\ [](Len(requested) <= Len(SECTOR_ETFS) + MaxStocks)
    /\ [](pc = "DONE" => (df_results # <<>> /\ Len(df_results) = Len(breakout_candidates)))
    /\ [](pc \in SmartOutcomes \ {"DONE"} => df_results = <<>>)

\* a run that ended without breakouts after every request it could make, the
\* last one without a series
C29_Witness ==
    /\ prog = "smart"
    /\ pc = "NO_BREAKOUTS"
    /\ IsNone(df)
    /\ Len(requested) = Len(SECTOR_ETFS) + MaxStocks
    /\ ~ENABLED NextSmart

\* C30: the score check_breakout_quality gives a candidate is a multiple of 5
\* from 20 to 100 (at least 10 for the breakout, 5 for volume, 0 for trend
\* and 5 for consolidation), so every score after the news step, in the
\* candidate list and in the ranked output, is from 10 to 110 and never
\* below 0.
C30_ScoreRange ==
    /\ (Scanned /\ IsCandidate(LastTicker)) =>
           /\ ScoredBase = BaseScore
           /\ ScoredBase % 5 = 0
           /\ ScoredBase \in 20..100
           /\ SubScores(df).breakout >= 10
           /\ SubScores(df).volume >= 5
           /\ SubScores(df).trend >= 0
           /\ SubScores(df).consolidation >= 5
    /\ \A k \in 1..Len(breakout_candidates) :
           /\ breakout_candidates[k].quality_score \in 10..110
           /\ breakout_candidates[k].quality_score >= 0
    /\ \A k \in 1..Len(df_results) : df_results[k].quality_score \in 10..110

\* a finished scan that reports a candidate raised to 90 by its news ahead
\* of one brought down to 55 by its news
C30_Witness ==
    /\ prog = "smart"
    /\ pc = "DONE"
    /\ Len(df_results) = 2
    /\ df_results[1].quality_score = 90
    /\ QGt(df_results[1].news_sentiment, Q(1, 5))
    /\ df_results[2].quality_score = 55
    /\ QLt(df_results[2].news_sentiment, Q(-1, 5))

=============================================================================
